---- MODULE Spec2Model ----
(***************************************************************************)
(* VectoriaDB SDK: the socket client (client/socket-client.js) and the     *)
(* server (server/vectoriadb-server.js) as state machines.                 *)
(*                                                                         *)
(*   SpecClient    the SocketClient: pending table, timers, offline queue, *)
(*                 'connect' / 'disconnect' / 'response' / 'response-chunk'*)
(*   SpecStream    one request of the SocketClient with every chunk stream *)
(*   FairClient    SpecClient with every armed timer eventually firing     *)
(*   SpecDispatch  the server's 'request' handler and _handleRequest       *)
(*   SpecBurst     the server's mutation tracking, inactivity timer and    *)
(*                 _saveToStorage in burst mode, with a clock              *)
(*   SpecSave      the same in inactivity mode with a long save interval   *)
(***************************************************************************)
EXTENDS Integers, Sequences, FiniteSets, TLC

(* ------------------------------ bounds -------------------------------- *)
\* requests one client issues
MaxReq == 2
\* 'response-chunk' events delivered to one pending request
MaxChunkEvents == 2
\* largest chunk index carried by a 'response-chunk' event
MaxIndex == 1

\* requests the server handles at the same time
MaxSlots == 1
\* largest array an engine method returns
MaxLen == 3
\* largest streamChunkSize the server is configured with
MaxChunkSize == 2
\* mutation records held in this._mutationTimestamps: where bursts are studied,
\* and where they are not
MaxHistory == 5
MaxFewHistory == 2
\* clock ticks a timed behaviour runs for
MaxTicks == 6
\* how many steps of ClientTickMs the client's clock takes
MaxClientTicks == 8
\* how many callers call listen()
MaxCallers == 3
\* how many startups are begun
MaxStartups == 2

(* ------------------------- program constants -------------------------- *)
\* constructor default: requestTimeout = 30000
requestTimeout == 30000
\* Number(opts.mutationBurstThreshold) || 5
mutationBurstThreshold == 5
\* Number(opts.mutationBurstWindowMs) || 2 * 60 * 1000
mutationBurstWindowMs == 120000
\* Number(opts.mutationInactivityMs) || 30 * 1000
DefaultInactivityMs == 30000
\* Number(opts.minSaveIntervalMs) || 10 * 1000
DefaultMinSaveIntervalMs == 10000
\* the clock advances in steps of the inactivity period
TickMs == DefaultInactivityMs
\* Date.now() when the server is constructed
StartTime == 100 * TickMs
\* the step of the client's clock
ClientTickMs == 5000

(* ------------------------------ values -------------------------------- *)
\* JavaScript values carried by envelopes, as uniform records.
Null == [kind |-> "null", items |-> << >>, n |-> 0]
Arr(s) == [kind |-> "array", items |-> s, n |-> 0]
Scalar(k) == [kind |-> "scalar", items |-> << >>, n |-> k]
\* { streamed: true, count: L }
StreamMarker(L) == [kind |-> "streamed", items |-> << >>, n |-> L]
\* Array.isArray(v)
IsArray(v) == v.kind = "array"

\* the error field of a Response Envelope: null, or { message }
NoError == [present |-> FALSE, message |-> ""]
Err(m) == [present |-> TRUE, message |-> m]

\* a promise: not yet created, pending, resolved with value, rejected with error
Unissued == [state |-> "unissued", value |-> Null, error |-> ""]
Pending == [state |-> "pending", value |-> Null, error |-> ""]
Resolved(v) == [state |-> "resolved", value |-> v, error |-> ""]
Rejected(m) == [state |-> "rejected", value |-> Null, error |-> m]
\* resolve()/reject() of a promise that is already settled changes nothing
Settle(p, q) == IF p.state = "pending" THEN q ELSE p

(* ------------------------- inputs of the client ----------------------- *)
Ids == 1..MaxReq
ClientMethods == {"search", "add"}
\* sendRequest({ timeout }): undefined ({}), or a number
TimeoutOptions == {{}, {0}, {ClientTickMs}}
\* chunk payloads of 'response-chunk' events; the last one is not an array
ChunkValues == {Arr(<<1>>), Arr(<<2, 3>>), Scalar(7)}
\* totalChunks of a 'response-chunk' event: absent ({}) or a number
TotalValues == {{}, {MaxIndex + 1}}
\* result / error of a 'response' event
ResultValues == {Null, Arr(<<9>>), StreamMarker(3)}
ErrorValues == {NoError, Err("boom"), Err("")}

VARIABLES
  connected,     \* socket.connected
  closed,        \* close() was called: the socket no longer reconnects
  pending,       \* this._pending: id -> { timer, timeoutMs, chunksMap, receivedChunks, totalChunks }
  offlineQueue,  \* this._offlineQueue
  timers,        \* the armed setTimeout handles
  nextId,        \* the ids _makeId has handed out so far, plus one
  promise,       \* the promise sendRequest returned for each id
  emitted,       \* the payloads passed to socket.emit('request', ...), in order
  settleCalls,   \* how many times resolve()/reject() was called for each id
  lastEvent,     \* the handler that ran last, with its message and the entry it found
  clock,         \* the client's time, from 0
  sched,         \* for each id: when its timer is due, since when it runs, the request's timeoutMs
  \* ---- client SDK (VectoriaDB) ----
  sdkCalls,      \* the search()/query() calls made: arguments, the caller's options object, the promise
  forwarded,     \* the { method, params } passed to this._socket.sendRequest, in order
  \* ---- server (VectoriaDBServer) ----
  streamChunkSize,          \* this.streamChunkSize
  autoSaveOnMutationBurst,  \* this.autoSaveOnMutationBurst
  autoSaveOnInactivity,     \* this.autoSaveOnInactivity
  mutationInactivityMs,     \* this.mutationInactivityMs
  minSaveIntervalMs,        \* this.minSaveIntervalMs
  now,                      \* Date.now()
  reqs,                     \* the 'request' events being handled, by slot
  wire,                     \* what each of them emitted on its socket, in order
  engineArgs,               \* the options object each of them passed to the engine method
  mutationTimestamps,       \* this._mutationTimestamps
  inactivityTimer,          \* the armed timer of this._inactivityTimer: {} or {the time it fires}
  lastBurstAt,              \* this._lastBurstAt
  savingInProgress,         \* this._savingInProgress
  lastSaveAt,               \* this._lastSaveAt
  engineSaves,              \* calls of the engine's saveToStorage in progress, by caller
  burstLog,                 \* when each mutation was recorded, since the history was last cleared
  burstRun,                 \* the mutations recorded within one burst window of the first
  lastFire,                 \* the last run of _onInactivityTimeout
  lastMutationAt,           \* when _recordMutation last ran (0: never)
  unsaved,                  \* a mutation was recorded since the engine's saveToStorage was last called
  lastTrigger,              \* the last call of _saveToStorage
  started,                  \* this._started
  startPromise,             \* this._startPromise: "null", or the state of the promise it holds
  startup,                  \* where the startup that listen() began stands
  startLog,                 \* startups begun, engines constructed and initialized, transports bound
  callers,                  \* the listen() calls, by caller
  sockets,                  \* this._sockets: the connected sockets, one per request slot
  ioState,                  \* this._io: "null", "open" or "closed"
  httpState,                \* this._http: "null", "open" or "closed"
  closeCall                 \* the close() call: where it stands, and what it did

clientVars == <<connected, closed, pending, offlineQueue, timers, nextId, promise,
                emitted, settleCalls, lastEvent, clock, sched>>

configVars == <<streamChunkSize, autoSaveOnMutationBurst, autoSaveOnInactivity,
                mutationInactivityMs, minSaveIntervalMs>>
dispatchVars == <<reqs, wire, engineArgs>>
trackVars == <<mutationTimestamps, inactivityTimer, lastBurstAt>>
saveVars == <<savingInProgress, lastSaveAt, engineSaves>>
logVars == <<burstLog, burstRun, lastFire, lastTrigger, lastMutationAt, unsaved>>
listenVars == <<started, startPromise, startup, startLog, callers>>
transportVars == <<sockets, ioState, httpState>>
lifeVars == <<listenVars, transportVars, closeCall>>
serverVars == <<configVars, now, dispatchVars, trackVars, saveVars, logVars, lifeVars>>

sdkVars == <<sdkCalls, forwarded>>

vars == <<clientVars, serverVars, sdkVars>>

(* ------------------------------ helpers -------------------------------- *)
\* this._pending.delete(id)
MapDeleteNot(m, id) == m
MapDelete(m, id) == [i \in DOMAIN m \ {id} |-> m[i]]
\* this._pending.set(id, e)
MapSet(m, id, e) == [i \in DOMAIN m \cup {id} |-> IF i = id THEN e ELSE m[i]]

\* a timer handle: the request it belongs to, and which arming of its timer it is
Timer(id, gen) == [id |-> id, gen |-> gen]

\* what setTimeout(callback, ms) called at time since comes to, for a request
\* whose sendRequest computed the timeout original
Sched(due, since, original) == [due |-> due, since |-> since, original |-> original]
NoSched == Sched(0, 0, 0)
\* typeof timeout === 'number' ? timeout : this.requestTimeout
EffectiveTimeout(timeout) ==
  IF timeout # {} THEN CHOOSE n \in timeout : TRUE ELSE requestTimeout
\* pending.timeoutMs || this.requestTimeout
RearmDelayNone(timeoutMs) == 0
RearmDelay(timeoutMs) == IF timeoutMs # 0 THEN timeoutMs ELSE requestTimeout

\* clearTimeout(t)
ClearTimeoutNot(ts, t) == ts
ClearTimeout(ts, t) == ts \ {t}
\* clearTimeout(old); pending.timer = setTimeout(...)
ResetTimerLost(ts, old, new) == ts \ {old}
ResetTimer(ts, old, new) == (ts \ {old}) \cup {new}

\* an entry of this._pending
Entry(timer, timeoutMs, chunksMap, receivedChunks, totalChunks) ==
  [timer |-> timer, timeoutMs |-> timeoutMs, chunksMap |-> chunksMap,
   receivedChunks |-> receivedChunks, totalChunks |-> totalChunks]
\* this._pending.get(id) is undefined
NoEntry == Entry(Timer(0, 0), 0, << >>, 0, {})
\* the record of a handler run: found says whether this._pending held the id
Event(kind, id, found, entry, result, error) ==
  [kind |-> kind, id |-> id, found |-> found, entry |-> entry, result |-> result,
   error |-> error]
Plain(kind, id) == Event(kind, id, FALSE, NoEntry, Null, NoError)

\* chunksMap[index] = chunk on a JavaScript object kept as its entries in
\* insertion order: an existing key keeps its place, a new key is appended
ObjSet(obj, index, chunk) ==
  IF \E k \in 1..Len(obj) : obj[k].index = index
    THEN [k \in 1..Len(obj) |->
            IF obj[k].index = index THEN [index |-> index, chunk |-> chunk] ELSE obj[k]]
    ELSE Append(obj, [index |-> index, chunk |-> chunk])
\* Object.keys(chunksMap).map(k => Number(k)), in the object's own order
ObjKeys(obj) == [k \in 1..Len(obj) |-> obj[k].index]
\* chunksMap[i]
ObjGet(obj, i) == LET k == CHOOSE j \in 1..Len(obj) : obj[j].index = i IN obj[k].chunk

\* insert x into the ascending sequence s
RECURSIVE InsertAsc(_, _)
InsertAsc(s, x) ==
  IF s = << >> THEN <<x>>
  ELSE IF x <= Head(s) THEN <<x>> \o s
  ELSE <<Head(s)>> \o InsertAsc(Tail(s), x)
\* the keys left in the order Object.keys gave them (no sort)
RECURSIVE SortNot(_)
SortNot(s) == IF s = << >> THEN << >> ELSE <<Head(s)>> \o SortNot(Tail(s))
\* .sort((a, b) => a - b)
RECURSIVE SortAsc(_)
SortAsc(s) == IF s = << >> THEN << >> ELSE InsertAsc(SortAsc(Tail(s)), Head(s))

\* indexes.flatMap(i => (Array.isArray(chunksMap[i]) ? chunksMap[i] : []))
RECURSIVE FlatMapChunks(_, _)
FlatMapChunks(indexes, obj) ==
  IF indexes = << >> THEN << >>
  ELSE (IF IsArray(ObjGet(obj, Head(indexes))) THEN ObjGet(obj, Head(indexes)).items ELSE << >>)
       \o FlatMapChunks(Tail(indexes), obj)

\* the 'response' handler's assembly of the streamed chunks
Assemble(chunksMap) == Arr(FlatMapChunks(SortAsc(ObjKeys(chunksMap)), chunksMap))

\* new Error(error.message || 'ServerError')
ErrorMessageWrong(error) == error.message
ErrorMessage(error) == IF error.message # "" THEN error.message ELSE "ServerError"

\* the connect handler's loop: each queued payload is shifted off and emitted
FlushLifo(queue) == [k \in 1..Len(queue) |-> queue[Len(queue) + 1 - k]]
FlushQueue(queue) == queue

\* the body of the 'disconnect' handler: the pending table is kept as it is
RejectAll(m) == << >>
KeepPending(m) == m

(* ------------------------------- client -------------------------------- *)
ClientStart ==
  /\ connected \in BOOLEAN
  /\ closed = FALSE
  /\ pending = << >>
  /\ offlineQueue = << >>
  /\ timers = {}
  /\ nextId = 1
  /\ promise = [i \in Ids |-> Unissued]
  /\ emitted = << >>
  /\ settleCalls = [i \in Ids |-> 0]
  /\ lastEvent = Plain("init", 0)
  /\ clock = 0
  /\ sched = [i \in Ids |-> NoSched]
  /\ sdkCalls = << >>
  /\ forwarded = << >>

\* sendRequest({ method, timeout }); at most limit requests are issued
\* setTimeout(...): one more armed timer
SetTimeoutNot(ts, t) == ts
SetTimeout(ts, t) == ts \cup {t}

SendRequest(limit, method, timeout) ==
  /\ nextId <= limit
  /\ LET id == nextId
         payload == [id |-> id, method |-> method]
         effectiveTimeout == EffectiveTimeout(timeout)
         timer == Timer(id, 0)
     IN /\ nextId' = nextId + 1
        /\ promise' = [promise EXCEPT ![id] = Pending]
        /\ timers' = SetTimeout(timers, timer)
        /\ pending' = MapSet(pending, id, Entry(timer, effectiveTimeout, << >>, 0, {}))
        /\ lastEvent' = Plain("send", id)
        /\ sched' = [sched EXCEPT ![id] = Sched(clock + effectiveTimeout, clock, effectiveTimeout)]
        /\ IF connected
             THEN emitted' = Append(emitted, payload) /\ UNCHANGED offlineQueue
             ELSE offlineQueue' = Append(offlineQueue, payload) /\ UNCHANGED emitted
  /\ UNCHANGED <<connected, closed, settleCalls, clock>>
  /\ UNCHANGED <<serverVars, sdkVars>>

\* a timer set by sendRequest or by the 'response-chunk' handler fires
TimerFires(t) ==
  /\ t \in timers
  /\ timers' = timers \ {t}
  /\ pending' = MapDelete(pending, t.id)
  /\ promise' = [promise EXCEPT ![t.id] = Settle(@, Rejected("RequestTimeout"))]
  /\ settleCalls' = [settleCalls EXCEPT ![t.id] = @ + 1]
  /\ lastEvent' = Plain("timer", t.id)
  /\ UNCHANGED <<connected, closed, offlineQueue, nextId, emitted, clock, sched>>
  /\ UNCHANGED <<serverVars, sdkVars>>

\* socket.on('connect')
OnConnect ==
  /\ ~connected
  /\ ~closed
  /\ connected' = TRUE
  /\ emitted' = emitted \o FlushQueue(offlineQueue)
  /\ offlineQueue' = << >>
  /\ lastEvent' = Plain("connect", 0)
  /\ UNCHANGED <<closed, pending, timers, nextId, promise, settleCalls, clock, sched>>
  /\ UNCHANGED <<serverVars, sdkVars>>

\* socket.on('disconnect'): the link drops; the handler does nothing
OnDisconnect ==
  /\ connected
  /\ connected' = FALSE
  /\ lastEvent' = Plain("disconnect", 0)
  /\ pending' = KeepPending(pending)
  /\ UNCHANGED <<closed, offlineQueue, timers, nextId, promise, emitted, settleCalls,
                 clock, sched>>
  /\ UNCHANGED <<serverVars, sdkVars>>

\* close(): socket.close(), which ends the connection and runs the
\* 'disconnect' handler
Close ==
  /\ ~closed
  /\ closed' = TRUE
  /\ connected' = FALSE
  /\ lastEvent' = Plain("close", 0)
  /\ pending' = KeepPending(pending)
  /\ UNCHANGED <<offlineQueue, timers, nextId, promise, emitted, settleCalls,
                 clock, sched>>
  /\ UNCHANGED <<serverVars, sdkVars>>

\* socket.on('response', { id, result, error })
OnResponse(id, result, error) ==
  /\ connected
  /\ IF id \notin DOMAIN pending
       THEN /\ lastEvent' = Event("response", id, FALSE, NoEntry, result, error)
            /\ UNCHANGED <<pending, timers, promise, settleCalls>>
       ELSE LET p == pending[id] IN
            /\ lastEvent' = Event("response", id, TRUE, p, result, error)
            /\ timers' = ClearTimeout(timers, p.timer)
            /\ pending' = MapDelete(pending, id)
            /\ settleCalls' = [settleCalls EXCEPT ![id] = @ + 1]
            /\ promise' = [promise EXCEPT ![id] =
                 Settle(@, IF p.chunksMap # << >> THEN Resolved(Assemble(p.chunksMap))
                           ELSE IF error.present THEN Rejected(ErrorMessage(error))
                           ELSE Resolved(result))]
  /\ UNCHANGED <<connected, closed, offlineQueue, nextId, emitted, clock, sched>>
  /\ UNCHANGED <<serverVars, sdkVars>>

\* socket.on('response-chunk', { id, chunk, index, totalChunks })
OnResponseChunk(id, chunk, index, total) ==
  /\ connected
  /\ IF id \notin DOMAIN pending
       THEN /\ lastEvent' = Event("chunk", id, FALSE, NoEntry, Null, NoError)
            /\ UNCHANGED <<pending, timers, sched>>
       ELSE LET p == pending[id]
                timer == Timer(id, p.receivedChunks + 1)
            IN /\ p.receivedChunks < MaxChunkEvents
               /\ lastEvent' = Event("chunk", id, TRUE, p, Null, NoError)
               /\ timers' = ResetTimer(timers, p.timer, timer)
               /\ sched' = [sched EXCEPT ![id] =
                    Sched(clock + RearmDelay(p.timeoutMs), clock, @.original)]
               /\ pending' = [pending EXCEPT ![id] =
                    Entry(timer, p.timeoutMs, ObjSet(p.chunksMap, index, chunk),
                          p.receivedChunks + 1,
                          IF total # {} THEN total ELSE p.totalChunks)]
  /\ UNCHANGED <<connected, closed, offlineQueue, nextId, promise, emitted, settleCalls, clock>>
  /\ UNCHANGED <<serverVars, sdkVars>>

\* the client's clock advances, no further than to the next timer that is due
ClientTick ==
  /\ clock + ClientTickMs <= MaxClientTicks * ClientTickMs
  /\ \A t \in timers : clock + ClientTickMs <= sched[t.id].due
  /\ clock' = clock + ClientTickMs
  /\ UNCHANGED <<connected, closed, pending, offlineQueue, timers, nextId, promise,
                 emitted, settleCalls, lastEvent, sched>>
  /\ UNCHANGED <<serverVars, sdkVars>>

\* a timer fires when its delay has passed
TimerDue(t) ==
  /\ t \in timers
  /\ sched[t.id].due <= clock
  /\ TimerFires(t)

(* ------------------------------- server -------------------------------- *)
\* this._mutationMethods
MutationMethods == {"add", "addMany", "update", "remove", "removeMany", "clear", "insert",
                    "upsert", "replace", "put", "delete"}
\* _isMutationMethod(method)
IsMutationMethodAny(method) == TRUE
IsMutationMethod(method) == method \in MutationMethods
\* the callable members of the VectoriaDB engine that requests name
EngineMethods == {"search", "add"}
\* typeof this._vectoria[method] === 'function'
IsCallableAny(method) == TRUE
IsCallable(method) == method \in EngineMethods

\* payloads of 'request' events: not an object; or { id, method, params } with
\* method "" standing for a missing or non-string method, and params an array of
\* plain values, not an array, or an array holding a malformed serialized function
Payload(kind, id, method, params) ==
  [kind |-> kind, id |-> id, method |-> method, params |-> params]
InvalidPayload == Payload("notObject", 0, "", "plain")
ObjectPayloads(id, methods, params) ==
  {Payload("object", id, m, ps) : m \in methods, ps \in params}
DispatchMethods == {"", "search", "add", "frobnicate", "upsert"}
ParamKinds == {"plain", "notArray", "badFn", "badFilter", "filterOnly", "filterCtx"}
\* new Function('return (' + source + ')') throws a SyntaxError: the params hold a
\* tagged payload with malformed source, top-level ("badFn") or as options.filter
MalformedSourceNever(params) == FALSE
MalformedSource(params) == params \in {"badFn", "badFilter"}

\* a missing argument or field
Undefined == "undefined"
\* the owner of a metadata record { owner } or of a filterContext { owner }
Owners == {"team", "other"}
\* the sources of the filters that requests carry
OwnerIsTeam == "function(m){ return !!(m && m.owner === 'team') }"
OwnerIsCtxOwner == "function(m, ctx){ return m && m.owner === ctx.owner }"
\* fn(m, ctx) for the function that a source denotes: ctx.owner throws on undefined
Apply(source, m, ctx) ==
  IF source = OwnerIsTeam THEN (IF m = "team" THEN "true" ELSE "false")
  ELSE IF ctx = Undefined THEN "TypeError"
  ELSE IF m = ctx THEN "true" ELSE "false"

\* options.filter: absent, { __isFnString: true, fn: source }, or a function
NoFilter == [kind |-> "none", fn |-> ""]
Serialized(source) == [kind |-> "serialized", fn |-> source]
Fn(source) == [kind |-> "function", fn |-> source]
\* an options-like parameter { filter, filterContext }
Options(filter, filterContext) == [filter |-> filter, filterContext |-> filterContext]
NoOptions == Options(NoFilter, Undefined)
\* the options object among the params of a request
ParamsOf(kind) ==
  IF kind = "filterOnly" THEN Options(Serialized(OwnerIsTeam), Undefined)
  ELSE IF kind = "filterCtx" THEN Options(Serialized(OwnerIsCtxOwner), "team")
  ELSE NoOptions
\* params.map(p => ...): p.filter = new Function('return (' + p.filter.fn + ')')(),
\* every other field of p as it came
Reparse(p) ==
  IF p.filter.kind = "serialized" THEN Options(Fn(p.filter.fn), p.filterContext) ELSE p
\* opt.filter(m): a call with one argument leaves the second parameter undefined
CallFilter(f, m) == Apply(f.fn, m, Undefined)

\* [1, 2, ..., L]
Iota(L) == [k \in 1..L |-> k]
\* what an engine method resolves to
EngineResults == {Arr(Iota(L)) : L \in 0..MaxLen} \cup {Null}
\* what an engine method throws
EngineErrors == {"EngineFailure"}

\* the events a socket emits
ChunkEv(id, chunk, index, totalChunks) ==
  [type |-> "response-chunk", id |-> id, chunk |-> chunk, index |-> index,
   totalChunks |-> totalChunks, result |-> Null, error |-> NoError]
ResponseEv(id, result, error) ==
  [type |-> "response", id |-> id, chunk |-> Null, index |-> 0, totalChunks |-> 0,
   result |-> result, error |-> error]

\* Math.ceil(a / b)
CeilDiv(a, b) == (a + b - 1) \div b
\* Math.floor(a / b)
FloorDiv(a, b) == a \div b
\* result.slice(a, b)
Slice(items, a, b) == SubSeq(items, a + 1, IF b < Len(items) THEN b ELSE Len(items))

\* for (let i = 0; i < total; i += chunkSize) socket.emit('response-chunk', ...)
RECURSIVE ChunkLoop(_, _, _, _)
ChunkLoop(id, items, chunkSize, i) ==
  IF i < Len(items)
    THEN <<ChunkEv(id, Arr(Slice(items, i, i + chunkSize)), FloorDiv(i, chunkSize),
                   CeilDiv(Len(items), chunkSize))>>
         \o ChunkLoop(id, items, chunkSize, i + chunkSize)
    ELSE << >>

\* Array.isArray(result) && result.length > this.streamChunkSize
ShouldStreamAtSize(result, chunkSize) == IsArray(result) /\ Len(result.items) >= chunkSize
ShouldStream(result, chunkSize) == IsArray(result) /\ Len(result.items) > chunkSize

\* what _handleRequest emits for the result of the engine call
EmitResult(id, result, chunkSize) ==
  IF ShouldStream(result, chunkSize)
    THEN ChunkLoop(id, result.items, chunkSize, 0)
         \o <<ResponseEv(id, StreamMarker(Len(result.items)), NoError)>>
    ELSE <<ResponseEv(id, result, NoError)>>

\* Promise.race: what the side that settles emits; the side that settles second
\* finds the race decided and emits nothing
RaceBoth(stage, events) == events
Race(stage, events) == IF stage = "awaiting" THEN events ELSE << >>

\* while (ts.length && ts[0] < cutoff) ts.shift()
RECURSIVE Purge(_, _)
Purge(ts, cutoff) ==
  IF ts # << >> /\ Head(ts) < cutoff THEN Purge(Tail(ts), cutoff) ELSE ts

\* a slot of the dispatcher
Slot(stage, payload, deadline, outcome, result) ==
  [stage |-> stage, payload |-> payload, deadline |-> deadline, outcome |-> outcome,
   result |-> result]
FreeSlot == Slot("free", InvalidPayload, FALSE, "none", Null)
Slots == 1..MaxSlots

\* a call of _saveToStorage: when, whether it called the engine's saveToStorage,
\* and how that call stands ("none", "running", "ok", "failed")
Trigger(at, calledEngine, call) == [at |-> at, started |-> calledEngine, call |-> call]
NoTrigger == Trigger(0, FALSE, "none")
\* a run of _onInactivityTimeout: how many mutations were recorded since the
\* history was last cleared, and how many of them inside the burst window that
\* ends now; how many mutations had been recorded within one burst window of the
\* first of them, counted up to mutationBurstThreshold; how many times the run called
\* _saveToStorage and whether that call reached the engine; whether the call of
\* _saveToStorage before it was less than minSaveIntervalMs earlier, and how
\* the engine call of that one stood when this run began
Fire(logged, inWindow, run, triggered, calledEngine, soon, prev) ==
  [logged |-> logged, inWindow |-> inWindow, run |-> run, triggered |-> triggered,
   started |-> calledEngine, soon |-> soon, prev |-> prev]
NoFire == Fire(0, 0, 0, 0, FALSE, FALSE, "none")
\* mutations counted from a first one, while the burst window it opened lasts and
\* no flush was triggered
Run(start, count) == [start |-> start, count |-> count]
NoRun == Run(0, 0)

\* the engine's saveToStorage calls in progress: those _saveToStorage made, and
\* those close() made
Saves(auto, shutdown) == [auto |-> auto, shutdown |-> shutdown]
NoSaves == Saves(0, 0)

\* what the startups so far did: how many were begun, how many engines were
\* constructed and initialized, how many times the transport was bound
Starts(begun, constructed, initialized, bound) ==
  [begun |-> begun, constructed |-> constructed, initialized |-> initialized,
   bound |-> bound]
\* the callers of listen(): each "idle", "starting" (it began the startup and
\* awaits it), "waiting" (it returned the startup's promise), "resolved" (to the
\* server instance) or "rejected"
Callers == 1..MaxCallers
\* a close() call: its stage ("idle", "closingIo", "closingHttp", "saving",
\* "resolved", "rejected"); how many engine saves it made; whether the save
\* interval had not passed and how many mutation records were held when it made
\* one; and how that save ended ("none", "ok", "failed")
CloseCall(stage, saves, soon, logged, outcome) ==
  [stage |-> stage, saves |-> saves, soon |-> soon, logged |-> logged,
   outcome |-> outcome]
NoCloseCall == CloseCall("idle", 0, FALSE, 0, "none")

\* the constructor: nothing is started
Constructed ==
  /\ started = FALSE
  /\ startPromise = "null"
  /\ startup = "idle"
  /\ startLog = Starts(0, 0, 0, 0)
  /\ callers = [c \in Callers |-> "idle"]
  /\ sockets = {}
  /\ ioState = "null"
  /\ httpState = "null"
  /\ closeCall = NoCloseCall

\* after one listen(): the server runs, with a socket connected for every slot
Listening ==
  /\ started = TRUE
  /\ startPromise = "null"
  /\ startup = "idle"
  /\ startLog = Starts(1, 1, 1, 1)
  /\ callers = [c \in Callers |-> IF c = 1 THEN "resolved" ELSE "idle"]
  /\ sockets = Slots
  /\ ioState = "open"
  /\ httpState = "open"
  /\ closeCall = NoCloseCall

\* the constructor's defaults for everything but the options given
ServerFields(chunkSize, burst, inactivity, inactivityMs, minSaveMs) ==
  /\ streamChunkSize = chunkSize
  /\ autoSaveOnMutationBurst = burst
  /\ autoSaveOnInactivity = inactivity
  /\ mutationInactivityMs = inactivityMs
  /\ minSaveIntervalMs = minSaveMs
  /\ now = StartTime
  /\ reqs = [r \in Slots |-> FreeSlot]
  /\ wire = [r \in Slots |-> << >>]
  /\ engineArgs = [r \in Slots |-> NoOptions]
  /\ mutationTimestamps = << >>
  /\ inactivityTimer = {}
  /\ lastBurstAt = 0
  /\ savingInProgress = FALSE
  /\ lastSaveAt = 0
  /\ engineSaves = NoSaves
  /\ burstLog = << >>
  /\ burstRun = NoRun
  /\ lastFire = NoFire
  /\ lastTrigger = NoTrigger
  /\ lastMutationAt = 0
  /\ unsaved = FALSE

\* a constructed server that listen() has started
ServerStart(chunkSize, burst, inactivity, inactivityMs, minSaveMs) ==
  /\ ServerFields(chunkSize, burst, inactivity, inactivityMs, minSaveMs)
  /\ Listening

\* no server takes part
ServerUnused == ServerStart(1, TRUE, FALSE, DefaultInactivityMs, DefaultMinSaveIntervalMs)

\* no client takes part
ClientUnused ==
  /\ connected = FALSE
  /\ closed = FALSE
  /\ pending = << >>
  /\ offlineQueue = << >>
  /\ timers = {}
  /\ nextId = 1
  /\ promise = [i \in Ids |-> Unissued]
  /\ emitted = << >>
  /\ settleCalls = [i \in Ids |-> 0]
  /\ lastEvent = Plain("init", 0)
  /\ clock = 0
  /\ sched = [i \in Ids |-> NoSched]
  /\ sdkCalls = << >>
  /\ forwarded = << >>

\* mutating calls whose engine call is still racing its deadline
TrackedInFlight ==
  Cardinality({r \in Slots : reqs[r].stage = "awaiting"
                             /\ IsMutationMethod(reqs[r].payload.method)})

\* socket.on('request', payload) up to the await in _handleRequest; at most cap
\* mutation records are held
OnRequest(r, payload, cap) ==
  /\ r \in sockets
  /\ reqs[r].stage \in {"free", "done"}
  /\ (autoSaveOnMutationBurst /\ IsMutationMethod(payload.method))
       => Len(mutationTimestamps) + TrackedInFlight < cap
  /\ IF payload.kind # "object"
       THEN /\ wire' = [wire EXCEPT ![r] =
                         <<ResponseEv(0, Null, Err("Invalid payload"))>>]
            /\ reqs' = [reqs EXCEPT ![r] = Slot("done", payload, FALSE, "invalid", Null)]
     ELSE IF payload.method = ""
       THEN /\ wire' = [wire EXCEPT ![r] =
                         <<ResponseEv(payload.id, Null, Err("Missing method"))>>]
            /\ reqs' = [reqs EXCEPT ![r] = Slot("done", payload, FALSE, "invalid", Null)]
     ELSE IF payload.params = "notArray"
       THEN \* params.map throws; the 'request' handler's catch answers
            /\ wire' = [wire EXCEPT ![r] =
                         <<ResponseEv(payload.id, Null, Err("params.map is not a function"))>>]
            /\ reqs' = [reqs EXCEPT ![r] = Slot("done", payload, FALSE, "crashed", Null)]
     ELSE IF MalformedSource(payload.params)
       THEN \* new Function throws; the 'request' handler's catch answers
            /\ wire' = [wire EXCEPT ![r] =
                         <<ResponseEv(payload.id, Null, Err("Unexpected token"))>>]
            /\ reqs' = [reqs EXCEPT ![r] = Slot("done", payload, FALSE, "crashed", Null)]
     ELSE IF ~IsCallable(payload.method)
       THEN /\ wire' = [wire EXCEPT ![r] =
                         <<ResponseEv(payload.id, Null,
                                      Err("MethodNotFound: " \o payload.method))>>]
            /\ reqs' = [reqs EXCEPT ![r] = Slot("done", payload, FALSE, "notFound", Null)]
     ELSE /\ wire' = [wire EXCEPT ![r] = << >>]
          /\ reqs' = [reqs EXCEPT ![r] = Slot("awaiting", payload, TRUE, "none", Null)]
  /\ engineArgs' = IF reqs'[r].stage = "awaiting"
                     THEN [engineArgs EXCEPT ![r] = Reparse(ParamsOf(payload.params))]
                     ELSE engineArgs
  /\ UNCHANGED <<configVars, now, trackVars, saveVars, logVars>>
  /\ UNCHANGED <<clientVars, sdkVars, lifeVars>>

\* if (this._inactivityTimer) clearTimeout(this._inactivityTimer): the armed
\* timers that are left
ClearTimerNot(armed) == armed
ClearTimer(armed) == {}

\* _recordMutation() and _scheduleInactivityTimer()
RecordMutation ==
  /\ mutationTimestamps' = Purge(Append(mutationTimestamps, now), now - mutationBurstWindowMs)
  /\ lastBurstAt' = IF Len(mutationTimestamps') >= mutationBurstThreshold
                      THEN now ELSE lastBurstAt
  /\ inactivityTimer' = ClearTimer(inactivityTimer) \cup {now + mutationInactivityMs}
  /\ lastMutationAt' = now
  /\ unsaved' = TRUE
  /\ burstLog' = Append(burstLog, now)
  /\ burstRun' = IF burstRun.count > 0 /\ now - burstRun.start < mutationBurstWindowMs
                    THEN Run(burstRun.start,
                             IF burstRun.count < mutationBurstThreshold
                               THEN burstRun.count + 1 ELSE burstRun.count)
                    ELSE Run(now, 1)

\* the engine call resolves: _handleRequest from the await to its end
EngineReturns(r, result) ==
  /\ reqs[r].stage \in {"awaiting", "abandoned"}
  /\ IF reqs[r].stage = "awaiting"
       THEN /\ reqs' = [reqs EXCEPT ![r] =
                         Slot("done", @.payload, @.deadline, "returned", result)]
            /\ IF autoSaveOnMutationBurst /\ IsMutationMethod(reqs[r].payload.method)
                 THEN RecordMutation
                 ELSE UNCHANGED <<trackVars, burstLog, burstRun, lastMutationAt, unsaved>>
       ELSE /\ reqs' = [reqs EXCEPT ![r] = Slot("done", @.payload, @.deadline, @.outcome, Null)]
            /\ UNCHANGED <<trackVars, burstLog, burstRun, lastMutationAt, unsaved>>
  /\ wire' = [wire EXCEPT ![r] =
                @ \o Race(reqs[r].stage, EmitResult(reqs[r].payload.id, result, streamChunkSize))]
  /\ UNCHANGED <<configVars, now, saveVars, lastFire, lastTrigger>>
  /\ UNCHANGED <<clientVars, sdkVars, lifeVars, engineArgs>>

\* the engine call throws or rejects: the catch of _handleRequest
EngineThrows(r, message) ==
  /\ reqs[r].stage \in {"awaiting", "abandoned"}
  /\ reqs' = [reqs EXCEPT ![r] =
                Slot("done", @.payload, @.deadline,
                     IF @.stage = "awaiting" THEN "threw" ELSE @.outcome, Null)]
  /\ wire' = [wire EXCEPT ![r] =
                @ \o Race(reqs[r].stage, <<ResponseEv(reqs[r].payload.id, Null, Err(message))>>)]
  /\ UNCHANGED <<configVars, now, trackVars, saveVars, logVars>>
  /\ UNCHANGED <<clientVars, sdkVars, lifeVars, engineArgs>>

\* reject(new Error('ServerTimeout'))
DeadlineErrorGeneric == Err("ServerError")
DeadlineError == Err("ServerTimeout")

\* the 30000 ms timer of Promise.race fires
DeadlineFires(r) ==
  /\ reqs[r].deadline
  /\ reqs' = [reqs EXCEPT ![r] =
                IF @.stage = "awaiting"
                  THEN Slot("abandoned", @.payload, FALSE, "timeout", Null)
                  ELSE Slot(@.stage, @.payload, FALSE, @.outcome, @.result)]
  /\ wire' = [wire EXCEPT ![r] =
                @ \o Race(reqs[r].stage, <<ResponseEv(reqs[r].payload.id, Null, DeadlineError)>>)]
  /\ UNCHANGED <<configVars, now, trackVars, saveVars, logVars>>
  /\ UNCHANGED <<clientVars, sdkVars, lifeVars, engineArgs>>

\* the ts of _mutationTimestamps with ts >= cutoff
RECURSIVE CountRecent(_, _)
CountRecent(ts, cutoff) ==
  IF ts = << >> THEN 0
  ELSE (IF Head(ts) >= cutoff THEN 1 ELSE 0) + CountRecent(Tail(ts), cutoff)

\* recentCount >= this.mutationBurstThreshold
BurstReachedAbove(recentCount) == recentCount > mutationBurstThreshold
BurstReached(recentCount) == recentCount >= mutationBurstThreshold

\* now - this._lastSaveAt < this.minSaveIntervalMs
TooSoonNever(t, last, minMs) == FALSE
TooSoon(t, last, minMs) == t - last < minMs

\* if (this._savingInProgress) return
ReentrantNever(flag) == FALSE
Reentrant(flag) == flag

\* _saveToStorage returns at one of its guards, without calling the engine
SaveSuppressed == Reentrant(savingInProgress) \/ TooSoon(now, lastSaveAt, minSaveIntervalMs)

\* the clock advances; an armed inactivity timer fires when it is due
Tick ==
  /\ now + TickMs <= StartTime + MaxTicks * TickMs
  /\ \A d \in inactivityTimer : now + TickMs <= d
  /\ now' = now + TickMs
  /\ UNCHANGED <<configVars, dispatchVars, trackVars, saveVars, logVars>>
  /\ UNCHANGED <<clientVars, sdkVars, lifeVars>>

\* this._lastSaveAt = Date.now() after the awaited saveToStorage: skipped when it
\* throws
SavedAtAlways(ok, prev, t) == t
SavedAt(ok, prev, t) == IF ok THEN t ELSE prev

\* this._mutationTimestamps = [] at the end of _onInactivityTimeout
ResetHistoryKeep(ts) == ts
ResetHistory(ts) == << >>


\* the inactivity timer fires: _onInactivityTimeout, to its end or to the await
\* of the engine's saveToStorage inside _saveToStorage
InactivityTimerFires ==
  /\ \E d \in inactivityTimer : now >= d /\ inactivityTimer' = inactivityTimer \ {d}
  /\ LET wantSave == IF autoSaveOnInactivity
                       THEN Len(mutationTimestamps) > 0
                       ELSE BurstReached(CountRecent(mutationTimestamps,
                                                     now - mutationBurstWindowMs))
         starts == wantSave /\ ~SaveSuppressed
     IN /\ lastFire' = Fire(Len(burstLog),
                            Cardinality({k \in 1..Len(burstLog) :
                                           now - burstLog[k] <= mutationBurstWindowMs}),
                            burstRun.count,
                            IF wantSave THEN 1 ELSE 0, starts,
                            now - lastTrigger.at < minSaveIntervalMs, lastTrigger.call)
        /\ lastTrigger' = IF wantSave
                            THEN Trigger(now, starts, IF starts THEN "running" ELSE "none")
                            ELSE lastTrigger
        /\ IF starts
             THEN /\ savingInProgress' = TRUE
                  /\ engineSaves' = Saves(engineSaves.auto + 1, engineSaves.shutdown)
                  /\ unsaved' = FALSE
                  /\ UNCHANGED <<mutationTimestamps, lastBurstAt, burstLog>>
             ELSE /\ mutationTimestamps' = ResetHistory(mutationTimestamps)
                  /\ lastBurstAt' = 0
                  /\ burstLog' = << >>
                  /\ UNCHANGED <<savingInProgress, engineSaves, unsaved>>
        /\ burstRun' = IF wantSave THEN NoRun ELSE burstRun
  /\ UNCHANGED <<configVars, now, dispatchVars, lastSaveAt, lastMutationAt>>
  /\ UNCHANGED <<clientVars, sdkVars, lifeVars>>

\* the engine's saveToStorage settles: the rest of _saveToStorage, then the rest
\* of the _onInactivityTimeout that awaited it
SaveSettles(ok) ==
  /\ engineSaves.auto > 0
  /\ engineSaves' = Saves(engineSaves.auto - 1, engineSaves.shutdown)
  /\ lastSaveAt' = SavedAt(ok, lastSaveAt, now)
  /\ savingInProgress' = FALSE
  /\ mutationTimestamps' = ResetHistory(mutationTimestamps)
  /\ lastBurstAt' = 0
  /\ burstLog' = << >>
  /\ lastTrigger' = IF lastTrigger.call = "running"
                      THEN Trigger(lastTrigger.at, TRUE, IF ok THEN "ok" ELSE "failed")
                      ELSE lastTrigger
  /\ UNCHANGED <<configVars, now, dispatchVars, inactivityTimer, burstRun, lastFire,
                 lastMutationAt, unsaved>>
  /\ UNCHANGED <<clientVars, sdkVars, lifeVars>>

\* if (this._startPromise) return this._startPromise
StartInProgressNever(p) == FALSE
StartInProgress(p) == p # "null"

\* what a caller who returned the startup's promise gets once it has settled
Adopt(state, p) == IF state = "waiting" THEN p ELSE state

\* listen(), to its return or its first await
Listen(c) ==
  /\ callers[c] \in {"idle", "resolved", "rejected"}
  /\ (~started /\ ~StartInProgress(startPromise)) => startLog.begun < MaxStartups
  /\ IF started
       THEN /\ callers' = [callers EXCEPT ![c] = "resolved"]
            /\ UNCHANGED <<startPromise, startup, startLog>>
     ELSE IF StartInProgress(startPromise)
       THEN /\ callers' = [callers EXCEPT ![c] =
                             IF startPromise = "pending" THEN "waiting" ELSE startPromise]
            /\ UNCHANGED <<startPromise, startup, startLog>>
     ELSE \* new VectoriaDB(config); await this._vectoria.initialize()
          /\ startPromise' = "pending"
          /\ startup' = "initializing"
          /\ startLog' = Starts(startLog.begun + 1, startLog.constructed + 1,
                                startLog.initialized, startLog.bound)
          /\ callers' = [callers EXCEPT ![c] = "starting"]
  /\ UNCHANGED <<configVars, now, dispatchVars, trackVars, saveVars, logVars, started,
                 transportVars, closeCall>>
  /\ UNCHANGED <<clientVars, sdkVars>>

\* the engine's initialize() settles: the HTTP and socket servers are created
\* and http.listen is called, or the startup fails
EngineInitialized(ok) ==
  /\ startup = "initializing"
  /\ IF ok
       THEN /\ startup' = "binding"
            /\ startLog' = Starts(startLog.begun, startLog.constructed,
                                  startLog.initialized + 1, startLog.bound)
            /\ ioState' = "open"
            /\ httpState' = "open"
            /\ UNCHANGED <<startPromise, callers>>
       ELSE /\ startup' = "idle"
            /\ startPromise' = "rejected"
            /\ callers' = [c \in Callers |-> Adopt(callers[c], "rejected")]
            /\ UNCHANGED <<startLog, ioState, httpState>>
  /\ UNCHANGED <<configVars, now, dispatchVars, trackVars, saveVars, logVars, started,
                 sockets, closeCall>>
  /\ UNCHANGED <<clientVars, sdkVars>>

\* the callback of this._http.listen runs: this._started = true
HttpListening ==
  /\ startup = "binding"
  /\ startup' = "idle"
  /\ started' = TRUE
  /\ startLog' = Starts(startLog.begun, startLog.constructed, startLog.initialized,
                        startLog.bound + 1)
  /\ startPromise' = "resolved"
  /\ callers' = [c \in Callers |-> Adopt(callers[c], "resolved")]
  /\ UNCHANGED <<configVars, now, dispatchVars, trackVars, saveVars, logVars,
                 transportVars, closeCall>>
  /\ UNCHANGED <<clientVars, sdkVars>>

\* the listen() call that began the startup resumes after its await: the
\* finally clears this._startPromise
StarterResumes ==
  /\ startPromise \in {"resolved", "rejected"}
  /\ callers' = [c \in Callers |-> IF callers[c] = "starting" THEN startPromise ELSE callers[c]]
  /\ startPromise' = "null"
  /\ UNCHANGED <<configVars, now, dispatchVars, trackVars, saveVars, logVars, started,
                 startup, startLog, transportVars, closeCall>>
  /\ UNCHANGED <<clientVars, sdkVars>>

\* close(): how the call ends once the engine's saveToStorage has settled; a
\* failure is caught and logged
CloseOutcomeThrows(ok) == IF ok THEN "resolved" ELSE "rejected"
CloseOutcome(ok) == "resolved"

\* close() up to its first await: it returns at once when the server is not
\* started; otherwise it clears the inactivity timer and disconnects the sockets
CloseBegin ==
  /\ closeCall.stage = "idle"
  /\ IF ~started
       THEN /\ closeCall' = CloseCall("resolved", 0, FALSE, 0, "none")
            /\ UNCHANGED <<inactivityTimer, sockets>>
       ELSE /\ inactivityTimer' = {}
            /\ sockets' = {}
            /\ closeCall' = CloseCall("closingIo", 0, FALSE, 0, "none")
  /\ UNCHANGED <<configVars, now, dispatchVars, mutationTimestamps, lastBurstAt, saveVars,
                 logVars, listenVars, ioState, httpState>>
  /\ UNCHANGED <<clientVars, sdkVars>>

\* close(): await this._io.close() is over
IoCloses ==
  /\ closeCall.stage = "closingIo"
  /\ ioState' = "closed"
  /\ closeCall' = CloseCall("closingHttp", 0, FALSE, 0, "none")
  /\ UNCHANGED <<configVars, now, dispatchVars, trackVars, saveVars, logVars, listenVars,
                 sockets, httpState>>
  /\ UNCHANGED <<clientVars, sdkVars>>

\* close(): this._http.close(resolve) is over, and the engine's saveToStorage is called
HttpCloses ==
  /\ closeCall.stage = "closingHttp"
  /\ httpState' = "closed"
  /\ engineSaves' = Saves(engineSaves.auto, engineSaves.shutdown + 1)
  /\ closeCall' = CloseCall("saving", closeCall.saves + 1,
                            TooSoon(now, lastSaveAt, minSaveIntervalMs),
                            Len(mutationTimestamps), "none")
  /\ unsaved' = FALSE
  /\ UNCHANGED <<configVars, now, dispatchVars, trackVars, savingInProgress, lastSaveAt,
                 burstLog, burstRun, lastFire, lastTrigger, lastMutationAt, listenVars,
                 sockets, ioState>>
  /\ UNCHANGED <<clientVars, sdkVars>>

\* close(): the engine's saveToStorage settles; this._started = false
ShutdownSaveSettles(ok) ==
  /\ closeCall.stage = "saving"
  /\ engineSaves' = Saves(engineSaves.auto, engineSaves.shutdown - 1)
  /\ started' = FALSE
  /\ closeCall' = CloseCall(CloseOutcome(ok), closeCall.saves, closeCall.soon,
                            closeCall.logged, IF ok THEN "ok" ELSE "failed")
  /\ UNCHANGED <<configVars, now, dispatchVars, trackVars, savingInProgress, lastSaveAt,
                 logVars, startPromise, startup, startLog, callers, transportVars>>
  /\ UNCHANGED <<clientVars, sdkVars>>

(* --------------------------- specifications ---------------------------- *)
AllTimers == {Timer(i, g) : i \in Ids, g \in 0..MaxChunkEvents}

\* several requests, each with the plainest stream: connection, queue, timers
NextClient ==
  \/ SendRequest(MaxReq, "search", {})
  \/ \E t \in AllTimers : TimerFires(t)
  \/ OnConnect
  \/ OnDisconnect
  \/ Close
  \/ \E i \in Ids, r \in {Null, Arr(<<9>>)}, e \in ErrorValues : OnResponse(i, r, e)
  \/ \E i \in Ids : OnResponseChunk(i, Arr(<<1>>), 0, {})

InitClient == ClientStart /\ ServerUnused

SpecClient == InitClient /\ [][NextClient]_vars

\* one request with every stream of chunk events
NextStream ==
  \/ \E m \in ClientMethods, t \in TimeoutOptions : SendRequest(1, m, t)
  \/ \E t \in AllTimers : TimerFires(t)
  \/ OnConnect
  \/ OnDisconnect
  \/ Close
  \/ \E r \in ResultValues, e \in ErrorValues : OnResponse(1, r, e)
  \/ \E c \in ChunkValues, x \in 0..MaxIndex, n \in TotalValues :
       OnResponseChunk(1, c, x, n)

SpecStream == InitClient /\ [][NextStream]_vars

\* one request with each timeout, its chunk events and its response, with a clock
NextTimed ==
  \/ \E t \in TimeoutOptions : SendRequest(1, "search", t)
  \/ ClientTick
  \/ \E t \in AllTimers : TimerDue(t)
  \/ OnResponse(1, Null, NoError)
  \/ OnResponseChunk(1, Arr(<<1>>), 0, {})

InitTimed == ClientStart /\ connected /\ ServerUnused

SpecTimed == InitTimed /\ [][NextTimed]_vars


\* the dispatcher with every payload, every engine outcome and the deadline; no
\* time passes
InitDispatch ==
  /\ ClientUnused
  /\ \E s \in 1..MaxChunkSize, b \in BOOLEAN :
       ServerStart(s, b, FALSE, DefaultInactivityMs, DefaultMinSaveIntervalMs)

NextDispatch ==
  \/ \E r \in Slots : OnRequest(r, InvalidPayload, MaxFewHistory)
  \/ \E r \in Slots : \E p \in ObjectPayloads(r, DispatchMethods, ParamKinds) :
       OnRequest(r, p, MaxFewHistory)
  \/ \E r \in Slots, v \in EngineResults : EngineReturns(r, v)
  \/ \E r \in Slots, m \in EngineErrors : EngineThrows(r, m)
  \/ \E r \in Slots : DeadlineFires(r)

SpecDispatch == InitDispatch /\ [][NextDispatch]_vars


\* the autosave scheduler in burst mode with the default timing, under
\* successful mutating calls, with a clock
InitBurst ==
  /\ ClientUnused
  /\ ServerStart(1, TRUE, FALSE, DefaultInactivityMs, DefaultMinSaveIntervalMs)

NextBurst ==
  \/ Tick
  \/ \E r \in Slots : \E p \in ObjectPayloads(r, {"add"}, {"plain"}) : OnRequest(r, p, MaxHistory)
  \/ \E r \in Slots : EngineReturns(r, Null)
  \/ InactivityTimerFires
  \/ \E ok \in BOOLEAN : SaveSettles(ok)

SpecBurst == InitBurst /\ [][NextBurst]_vars

\* the autosave scheduler in inactivity mode with a save interval of two
\* inactivity periods, under successful mutating calls, with a clock
InitSave ==
  /\ ClientUnused
  /\ ServerStart(1, TRUE, TRUE, DefaultInactivityMs, 2 * DefaultInactivityMs)

NextSave ==
  \/ Tick
  \/ \E r \in Slots : \E p \in ObjectPayloads(r, {"add"}, {"plain"}) :
       OnRequest(r, p, MaxFewHistory)
  \/ \E r \in Slots : EngineReturns(r, Null)
  \/ InactivityTimerFires
  \/ \E ok \in BOOLEAN : SaveSettles(ok)

SpecSave == InitSave /\ [][NextSave]_vars

\* the autosave scheduler in either mode: burst mode as in SpecBurst, inactivity
\* mode as in SpecSave, under one mutating call at a time
InitModes == InitBurst \/ InitSave

NextModes ==
  \/ Tick
  \/ \E p \in ObjectPayloads(1, {"add"}, {"plain"}) :
       OnRequest(1, p, IF autoSaveOnInactivity THEN MaxFewHistory ELSE MaxHistory)
  \/ EngineReturns(1, Null)
  \/ InactivityTimerFires
  \/ \E ok \in BOOLEAN : SaveSettles(ok)

SpecModes == InitModes /\ [][NextModes]_vars

\* the autosave scheduler in inactivity mode, as in SpecSave with one mutation
\* record at a time, and a close() call
NextClose ==
  \/ Tick
  \/ \E r \in Slots : \E p \in ObjectPayloads(r, {"add"}, {"plain"}) : OnRequest(r, p, 1)
  \/ \E r \in Slots : EngineReturns(r, Null)
  \/ InactivityTimerFires
  \/ \E ok \in BOOLEAN : SaveSettles(ok)
  \/ CloseBegin
  \/ IoCloses
  \/ HttpCloses
  \/ \E ok \in BOOLEAN : ShutdownSaveSettles(ok)

SpecClose == InitSave /\ [][NextClose]_vars

\* listen() called by several callers on a constructed server, with an engine
\* whose initialize() succeeds or fails
InitListen ==
  /\ ClientUnused
  /\ ServerFields(1, TRUE, FALSE, DefaultInactivityMs, DefaultMinSaveIntervalMs)
  /\ Constructed

NextListen ==
  \/ \E c \in Callers : Listen(c)
  \/ \E ok \in BOOLEAN : EngineInitialized(ok)
  \/ HttpListening
  \/ StarterResumes

SpecListen == InitListen /\ [][NextListen]_vars

(* --------------------- fairness of the client's timers ----------------- *)
\* setTimeout: a timer that stays armed fires
FairClient == SpecClient /\ \A t \in AllTimers : WF_vars(TimerFires(t))

(* ============================== claims ================================= *)
\* chunks 0..N-1 of a chunksMap, concatenated by counting the index up
RECURSIVE ConcatFrom(_, _, _)
ConcatFrom(obj, i, N) ==
  IF i >= N THEN << >> ELSE ObjGet(obj, i).items \o ConcatFrom(obj, i + 1, N)

\* the entry received N >= 1 chunk events covering 0..N-1 exactly once, all arrays
CoversExactlyOnce(e) ==
  /\ e.receivedChunks >= 1
  /\ Len(e.chunksMap) = e.receivedChunks
  /\ {e.chunksMap[k].index : k \in 1..Len(e.chunksMap)} = 0..(e.receivedChunks - 1)
  /\ \A k \in 1..Len(e.chunksMap) : IsArray(e.chunksMap[k].chunk)

\* C1: when a terminal response arrives for a pending request that received N >= 1
\* chunk events covering the indices 0..N-1 exactly once, in whatever order they
\* arrived, the promise resolves with the chunks concatenated in ascending index
\* order.
C1_AssembledInIndexOrder ==
  (lastEvent.kind = "response" /\ lastEvent.found /\ CoversExactlyOnce(lastEvent.entry))
    => promise[lastEvent.id] =
         Resolved(Arr(ConcatFrom(lastEvent.entry.chunksMap, 0, lastEvent.entry.receivedChunks)))

\* C1 witness: chunk 1 arrived before chunk 0 and the two were assembled as 0, 1
C1_Witness ==
  /\ lastEvent.kind = "response" /\ lastEvent.found
  /\ CoversExactlyOnce(lastEvent.entry)
  /\ ObjKeys(lastEvent.entry.chunksMap) = <<1, 0>>
  /\ promise[lastEvent.id] = Resolved(Arr(<<2, 3, 1>>))

\* C2 as stated: with no chunk received, a terminal response resolves with its result
\* when error is null and rejects with the response's error message otherwise.
C2_AsStated ==
  (lastEvent.kind = "response" /\ lastEvent.found /\ lastEvent.entry.receivedChunks = 0)
    => promise[lastEvent.id] =
         (IF lastEvent.error.present THEN Rejected(lastEvent.error.message)
          ELSE Resolved(lastEvent.result))

\* C2 amended: with no chunk received, a terminal response resolves with exactly its
\* result when error is null; otherwise it rejects with the response's error message,
\* or with 'ServerError' when that message is empty.
C2_DirectResult ==
  (lastEvent.kind = "response" /\ lastEvent.found /\ lastEvent.entry.receivedChunks = 0)
    => promise[lastEvent.id] =
         (IF ~lastEvent.error.present THEN Resolved(lastEvent.result)
          ELSE IF lastEvent.error.message = "" THEN Rejected("ServerError")
          ELSE Rejected(lastEvent.error.message))

\* C2 witness: a chunkless request rejected with the server's message, and one resolved
C2_Witness ==
  /\ lastEvent.kind = "response" /\ lastEvent.found
  /\ lastEvent.entry.receivedChunks = 0
  /\ lastEvent.error = Err("boom")
  /\ promise[lastEvent.id] = Rejected("boom")

\* no payload occurs twice in a sequence
NoDuplicates(q) == \A a, b \in 1..Len(q) : a # b => q[a].id # q[b].id

\* one step of the client, as C3 describes it
C3_Step ==
  /\ (lastEvent'.kind = "send" /\ ~connected)
      => /\ Len(offlineQueue') = Len(offlineQueue) + 1
         /\ SubSeq(offlineQueue', 1, Len(offlineQueue)) = offlineQueue
         /\ offlineQueue'[Len(offlineQueue')].id = lastEvent'.id
         /\ emitted' = emitted
         /\ promise'[lastEvent'.id].state = "pending"
         /\ lastEvent'.id \in DOMAIN pending'
  /\ (lastEvent'.kind = "send" /\ connected)
      => /\ offlineQueue' = offlineQueue
         /\ Len(emitted') = Len(emitted) + 1
         /\ emitted'[Len(emitted')].id = lastEvent'.id
  /\ (lastEvent'.kind = "connect")
      => /\ emitted' = emitted \o offlineQueue
         /\ offlineQueue' = << >>
  /\ (lastEvent'.kind \notin {"send", "connect"})
      => /\ offlineQueue' = offlineQueue
         /\ emitted' = emitted
  /\ NoDuplicates(emitted' \o offlineQueue')
  /\ connected' => offlineQueue' = << >>

\* C3: a request sent while disconnected is appended to the offline queue with its
\* promise pending; the queue is otherwise left alone until the next connect, which
\* emits the queued envelopes once each, in submission order, and empties the
\* queue; nothing emitted is emitted or queued again.
C3_OfflineQueueReplay == [][C3_Step]_vars

\* C3 witness: requests queued while offline, the first of which timed out in the
\* queue, were emitted by one connect in the order they were submitted
C3_Witness ==
  /\ lastEvent.kind = "connect"
  /\ Len(emitted) >= 2
  /\ \A k \in 1..Len(emitted) : emitted[k].id = k
  /\ offlineQueue = << >>
  /\ promise[1].state = "rejected"

\* one step of the client, as C4 describes it
C4_Step ==
  \A i \in Ids :
   /\ (lastEvent'.kind = "timer" /\ lastEvent'.id = i)
        => /\ i \notin DOMAIN pending'
           /\ promise'[i] = Rejected("RequestTimeout")
           /\ \A t \in timers' : t.id # i
   /\ (promise[i] = Rejected("RequestTimeout"))
        => /\ i \notin DOMAIN pending'
           /\ promise'[i] = promise[i]
           /\ settleCalls'[i] = settleCalls[i]
           /\ \A t \in timers' : t.id # i

\* C4: a timer that fires removes the entry and fails the request with
\* RequestTimeout; from then on no event re-creates the entry, arms a timer for
\* the id, or calls resolve/reject for it.
C4_TimeoutIsFinal == [][C4_Step]_vars

\* C4 witness: a response arrived for a request that had timed out
C4_Witness ==
  /\ lastEvent.kind \in {"response", "chunk"}
  /\ ~lastEvent.found
  /\ promise[lastEvent.id] = Rejected("RequestTimeout")

\* one step of the client, as C5 describes it
C5_Step ==
  /\ \A i \in Ids : settleCalls'[i] <= 1
  /\ \A i \in Ids : settleCalls'[i] = 1 <=> promise'[i].state \in {"resolved", "rejected"}
  /\ (lastEvent'.kind \in {"response", "chunk"} /\ ~lastEvent'.found)
       => UNCHANGED <<connected, closed, pending, offlineQueue, timers, nextId,
                      promise, emitted, settleCalls>>

\* C5: resolve/reject is called at most once for every request, and a response or
\* chunk event for an id that is not in the pending table changes nothing.
C5_SingleResolution == [][C5_Step]_vars

\* C5 witness: a request settled by its response, after which its chunk arrived
C5_Witness ==
  /\ lastEvent.kind = "chunk" /\ ~lastEvent.found
  /\ promise[lastEvent.id].state = "resolved"
  /\ settleCalls[lastEvent.id] = 1

C7_AsStated ==
  (lastFire # NoFire /\ ~autoSaveOnInactivity)
    => /\ lastFire.run = mutationBurstThreshold - 1 => lastFire.triggered = 0
       /\ lastFire.run = mutationBurstThreshold => lastFire.triggered = 1

\* C7 amended: in burst mode, the inactivity handler triggers exactly one flush
\* when at least mutationBurstThreshold mutations were recorded since the
\* history was last cleared (by the previous run of the handler) and lie inside
\* the burst window that ends at the firing, and triggers none otherwise (so none
\* after 4 calls, and none for a 5th call made after the timer fired for the 4).
C7_BurstFlush ==
  (lastFire # NoFire /\ ~autoSaveOnInactivity)
    => /\ lastFire.inWindow >= mutationBurstThreshold => lastFire.triggered = 1
       /\ lastFire.inWindow < mutationBurstThreshold => lastFire.triggered = 0

\* C7 witness: five mutating calls, none separated by a timer firing, then the
\* firing that triggered a flush which reached the engine
C7_Witness ==
  /\ ~autoSaveOnInactivity
  /\ lastFire.logged = mutationBurstThreshold
  /\ lastFire.inWindow = mutationBurstThreshold
  /\ lastFire.triggered = 1
  /\ lastFire.started
  /\ savingInProgress

\* C8 as stated: a call of _saveToStorage made less than minSaveIntervalMs after
\* one that called the engine calls the engine no second time, whatever became of
\* the first call.
C8_AsStated ==
  (lastFire.triggered = 1 /\ lastFire.soon /\ lastFire.prev # "none")
    => ~lastFire.started

\* C8 amended: a call of _saveToStorage made less than minSaveIntervalMs after
\* one that called the engine calls the engine no second time when the first
\* engine call succeeded or is still in progress, and calls it a second time when
\* the first engine call had failed.
C8_OneSavePerInterval ==
  (lastFire.triggered = 1 /\ lastFire.soon)
    => /\ lastFire.prev \in {"ok", "running"} => ~lastFire.started
       /\ lastFire.prev = "failed" => lastFire.started

\* C8 witness: a second flush trigger, one inactivity period after a save that
\* succeeded, was suppressed
C8_Witness ==
  /\ lastFire.triggered = 1
  /\ lastFire.soon
  /\ lastFire.prev = "ok"
  /\ ~lastFire.started
  /\ lastSaveAt > 0

\* the least n with n * S >= L
CeilOf(L, S) == CHOOSE n \in 0..L : n * S >= L /\ (n = 0 \/ (n - 1) * S < L)

\* items[a + 1 .. b], b capped at the length of items
Part(items, a, b) ==
  [j \in 1..((IF b < Len(items) THEN b ELSE Len(items)) - a) |-> items[a + j]]

\* the events C9 describes for a result
ExpectedEvents(id, result, S) ==
  IF IsArray(result) /\ Len(result.items) > S
    THEN LET L == Len(result.items)
             n == CeilOf(L, S)
         IN [k \in 1..(n + 1) |->
               IF k <= n
                 THEN ChunkEv(id, Arr(Part(result.items, (k - 1) * S, k * S)), k - 1, n)
                 ELSE ResponseEv(id, StreamMarker(L), NoError)]
    ELSE <<ResponseEv(id, result, NoError)>>

\* C9: for an array result of length L > S = streamChunkSize the dispatcher emits
\* the chunks 0 .. ceil(L/S)-1 in ascending order, each with totalChunks =
\* ceil(L/S) and the slice [i*S, min((i+1)*S, L)), then one response with
\* {streamed: true, count: L}; for any other result it emits one response with
\* the result and no chunk.
C9_ChunkedResult ==
  \A r \in Slots :
    reqs[r].outcome = "returned"
      => wire[r] = ExpectedEvents(reqs[r].payload.id, reqs[r].result, streamChunkSize)

\* C9 witness: an array of 3 items sent with chunk size 2 as chunks of 2 and 1 items
C9_Witness ==
  \E r \in Slots :
    /\ reqs[r].outcome = "returned"
    /\ streamChunkSize = 2
    /\ Len(reqs[r].result.items) = 3
    /\ Len(wire[r]) = 3
    /\ wire[r][2].chunk = Arr(<<3>>)
    /\ wire[r][3].result = StreamMarker(3)

\* the 'response' events among a socket's events
Responses(events) == {k \in 1..Len(events) : events[k].type = "response"}

\* C10: every 'request' event whose handling has ended, in whichever way, got
\* exactly one 'response' event, and that is the last event emitted for it; one
\* whose engine call is still racing the deadline got none yet and its deadline
\* timer is armed.
C10_OneTerminalResponse ==
  \A r \in Slots :
    /\ reqs[r].stage = "free" => wire[r] = << >>
    /\ reqs[r].stage = "awaiting" => wire[r] = << >> /\ reqs[r].deadline
    /\ reqs[r].stage \in {"done", "abandoned"}
         => /\ Responses(wire[r]) = {Len(wire[r])}
            /\ \A k \in 1..Len(wire[r]) :
                 wire[r][k].id = (IF reqs[r].payload.kind = "object" THEN reqs[r].payload.id ELSE 0)

\* C10 witness: an engine call that resolved after the deadline had answered
C10_Witness ==
  \E r \in Slots :
    /\ reqs[r].stage = "done"
    /\ reqs[r].outcome = "timeout"
    /\ wire[r] = <<ResponseEv(reqs[r].payload.id, Null, Err("ServerTimeout"))>>

\* the requests C11 is about: an object payload naming a method the engine lacks
NamesUnknownMethod(slot) ==
  /\ slot.stage # "free"
  /\ slot.payload.kind = "object"
  /\ slot.payload.method # ""
  /\ slot.payload.method \notin EngineMethods

\* the one response C11 describes: result null, error message with 'MethodNotFound'
IsMethodNotFound(events) ==
  /\ Len(events) = 1
  /\ events[1].type = "response"
  /\ events[1].result = Null
  /\ events[1].error.present
  /\ Len(events[1].error.message) >= 14
  /\ SubSeq(events[1].error.message, 1, 14) = "MethodNotFound"

\* a mutation record is appended only in a step in which an engine call, of a
\* method the engine has, resolves
AppendsOnlyOnReturn ==
  (mutationTimestamps' # mutationTimestamps /\ mutationTimestamps' # << >>)
    => \E r \in Slots : /\ reqs[r].stage = "awaiting"
                        /\ reqs'[r].outcome = "returned"
                        /\ reqs[r].payload.method \in EngineMethods

\* C11 as stated: every request naming a method that is not a callable member
\* of the engine is answered by one response with result null and an error
\* message containing 'MethodNotFound', and never reaches the engine.
C11_AsStated ==
  \A r \in Slots :
    NamesUnknownMethod(reqs[r]) => reqs[r].stage = "done" /\ IsMethodNotFound(wire[r])

\* C11 amended: a request whose params are an array that deserializes, naming a
\* method that is not a callable member of the engine, is answered by one
\* response with result null and an error message containing 'MethodNotFound',
\* with no chunk event; no request naming such a method, whatever its params,
\* reaches the engine or appends a mutation record.
C11_MethodNotFound ==
  /\ [](\A r \in Slots :
          NamesUnknownMethod(reqs[r])
            => /\ reqs[r].stage = "done"
               /\ Len(wire[r]) = 1 /\ wire[r][1].type = "response"
               /\ wire[r][1].result = Null /\ wire[r][1].error.present
               /\ reqs[r].payload.params = "plain" => IsMethodNotFound(wire[r]))
  /\ [][AppendsOnlyOnReturn]_vars

\* C11 witness: a mutating method name the engine lacks was answered
\* MethodNotFound while mutation tracking is on, and no record was appended
C11_Witness ==
  \E r \in Slots :
    /\ autoSaveOnMutationBurst
    /\ reqs[r].payload.method = "upsert"
    /\ reqs[r].payload.params = "plain"
    /\ reqs[r].outcome = "notFound"
    /\ wire[r] = <<ResponseEv(reqs[r].payload.id, Null, Err("MethodNotFound: upsert"))>>
    /\ mutationTimestamps = << >>

\* the indices an entry accumulated chunks for
ChunkIndices(e) == {e.chunksMap[k].index : k \in 1..Len(e.chunksMap)}

\* the entry holds chunks, knows totalChunks, and lacks an index of [0, totalChunks)
StreamHasGap(e) ==
  /\ e.chunksMap # << >>
  /\ e.totalChunks # {}
  /\ \E n \in e.totalChunks : ChunkIndices(e) # 0..(n - 1)

\* C12 as stated: when a terminal response arrives for a request whose accumulated
\* chunk indices do not cover [0, totalChunks), the promise rejects with
\* StreamIncomplete and does not resolve with the partial result.
C12_AsStated ==
  (lastEvent.kind = "response" /\ lastEvent.found /\ StreamHasGap(lastEvent.entry))
    => promise[lastEvent.id] = Rejected("StreamIncomplete")

\* the timers armed for a request
TimersOf(ts, i) == {t \in ts : t.id = i}

\* C13 as stated: after a response-chunk event for a pending id, the request's
\* timer runs for the request's original timeoutMs from the chunk's arrival.
C13_AsStated ==
  (lastEvent.kind = "chunk" /\ lastEvent.found)
    => sched[lastEvent.id].due = sched[lastEvent.id].since + lastEvent.entry.timeoutMs

\* one step of the client, as C13 describes it
C13_Step ==
  (lastEvent'.kind = "chunk" /\ lastEvent'.found /\ lastEvent' # lastEvent)
    => LET i == lastEvent'.id IN
       /\ lastEvent'.entry.timer \in timers
       /\ lastEvent'.entry.timer \notin timers'
       /\ TimersOf(timers', i) = {pending'[i].timer}
       /\ sched'[i].since = clock
       /\ pending'[i].timeoutMs = pending[i].timeoutMs

\* C13 amended: each response-chunk event for a pending id cancels the request's
\* current timer and arms one new timer, counted from the chunk's arrival, of the
\* request's original timeoutMs, or of the client's requestTimeout when that
\* timeoutMs is 0; a request fails with RequestTimeout only when its original
\* timeoutMs has passed since the later of its submission and its last chunk.
C13_ChunkResetsTimer ==
  /\ []((lastEvent.kind = "chunk" /\ lastEvent.found)
         => /\ lastEvent.entry.timeoutMs = sched[lastEvent.id].original
            /\ sched[lastEvent.id].due = sched[lastEvent.id].since
                 + (IF lastEvent.entry.timeoutMs = 0 THEN requestTimeout
                    ELSE lastEvent.entry.timeoutMs))
  /\ [](lastEvent.kind = "timer"
         => /\ promise[lastEvent.id] = Rejected("RequestTimeout")
            /\ clock >= sched[lastEvent.id].since + sched[lastEvent.id].original)
  /\ [][C13_Step]_vars

\* C13 witness: a request with a timeout of one clock step got a chunk when its
\* timer was due, and timed out one full timeout after that chunk
C13_Witness ==
  /\ lastEvent.kind = "timer"
  /\ sched[lastEvent.id] = Sched(2 * ClientTickMs, ClientTickMs, ClientTickMs)
  /\ clock = 2 * ClientTickMs
  /\ promise[lastEvent.id] = Rejected("RequestTimeout")

\* one step of the client, as C14 describes it
C14_Step ==
  (lastEvent'.kind \in {"disconnect", "close"} /\ lastEvent' # lastEvent)
    => /\ pending' = pending
       /\ timers' = timers
       /\ offlineQueue' = offlineQueue
       /\ promise' = promise
       /\ settleCalls' = settleCalls
       /\ sched' = sched

\* C14: a disconnect event and a close() call each leave the pending table
\* (with every entry's timer and accumulated chunks), the armed timers and the
\* offline queue as they were, and settle no promise.
C14_DisconnectKeepsPending == [][C14_Step]_vars

\* C14 witness: close() was called while one request held a chunk and an armed
\* timer and another sat in the offline queue; both are still pending
C14_Witness ==
  /\ lastEvent.kind = "close"
  /\ 1 \in DOMAIN pending /\ pending[1].chunksMap # << >> /\ pending[1].timer \in timers
  /\ Len(offlineQueue) = 1 /\ offlineQueue[1].id = 2
  /\ 2 \in DOMAIN pending
  /\ promise[1] = Pending /\ promise[2] = Pending

\* C15 as stated: in inactivity mode, whenever the inactivity timer fires and at
\* least one mutation was recorded since the last flush was triggered, the
\* handler triggers a flush.
C15_AsStated ==
  (autoSaveOnInactivity /\ lastFire # NoFire /\ lastFire.run >= 1)
    => lastFire.triggered = 1

\* one step of the server, as C16 describes it
C16_Step ==
  (engineSaves'.auto > engineSaves.auto)
    => /\ engineSaves.auto = 0
       /\ ~savingInProgress
       /\ lastFire'.started

\* C16: at most one engine saveToStorage call made by _saveToStorage is in
\* progress at any time, and it is in progress exactly while the re-entrancy flag
\* is set; a call of _saveToStorage made while one is in progress starts none.
C16_NoOverlappingFlush ==
  /\ [](engineSaves.auto <= 1 /\ (savingInProgress <=> engineSaves.auto = 1))
  /\ [](lastFire.prev = "running" => ~lastFire.started)
  /\ [][C16_Step]_vars

\* C16 witness: the inactivity timer fired while a slow save was in progress,
\* and its flush, not held back by the save interval, called the engine no second time
C16_Witness ==
  /\ lastFire.triggered = 1
  /\ ~lastFire.started
  /\ lastFire.prev = "running"
  /\ lastSaveAt = 0
  /\ engineSaves.auto = 1
  /\ savingInProgress

\* C17: a close() call on a started server makes exactly one call of the
\* engine's saveToStorage, whether or not the save interval has passed and
\* whatever the mutation history holds, and the call resolves also when that
\* save fails.
C17_FinalSaveOnClose ==
  /\ closeCall.stage # "rejected"
  /\ closeCall.stage \in {"idle", "closingIo", "closingHttp"} => closeCall.saves = 0
  /\ closeCall.stage \in {"saving", "resolved"} => closeCall.saves = 1
  /\ closeCall.stage = "saving" <=> engineSaves.shutdown = 1
  /\ closeCall.stage = "resolved" => ~started /\ closeCall.outcome \in {"ok", "failed"}

\* C17 witness: close() made its save within the save interval of an autosave,
\* with an empty history; the save failed and close() resolved
C17_Witness ==
  /\ closeCall.stage = "resolved"
  /\ closeCall.saves = 1
  /\ closeCall.soon
  /\ closeCall.logged = 0
  /\ closeCall.outcome = "failed"
  /\ lastSaveAt > 0

\* C18 as stated: while the engine's saveToStorage call of close() is being
\* made, the client sockets are still connected and the socket server and the
\* HTTP server are still open.
C18_AsStated ==
  closeCall.stage = "saving"
    => sockets = Slots /\ ioState = "open" /\ httpState = "open"

\* every startup constructed one engine, and initialized it and bound the
\* transport at most once
OneEnginePerStartup ==
  /\ startLog.constructed = startLog.begun
  /\ startLog.initialized <= startLog.begun
  /\ startLog.bound <= startLog.initialized

\* C19 as stated: the listen() calls share one startup each, and every call
\* that has returned resolved to the server, which is started.
C19_AsStated ==
  /\ OneEnginePerStartup
  /\ \A c \in Callers :
       callers[c] \in {"resolved", "rejected"} => callers[c] = "resolved" /\ started

\* one step of the server, as C19 describes it
C19_Step ==
  /\ startLog'.begun > startLog.begun
       => ~started /\ startPromise = "null" /\ startup = "idle"
  /\ started => started' /\ startLog' = startLog
  /\ \A c \in Callers :
       (callers[c] = "waiting" /\ callers'[c] # "waiting") => callers'[c] = startPromise'

\* C19 amended: listen() calls made while a startup is in progress or after
\* the server has started begin no startup of their own; each startup constructs
\* one engine, initializes it once and binds the transport once. When the
\* startup succeeds every call sharing it resolves to the server and _started
\* is true; when the engine's initialize() fails every call sharing it rejects
\* and _started stays false.
C19_SharedStartup ==
  /\ [](OneEnginePerStartup /\ startLog.bound <= 1)
  /\ [](startup # "idle" <=> startPromise = "pending")
  /\ [](started <=> startLog.bound = 1)
  /\ [](Cardinality({c \in Callers : callers[c] = "starting"}) <= 1)
  /\ [](\A c \in Callers :
          /\ callers[c] = "resolved" => started
          /\ callers[c] = "rejected" => startLog.begun > startLog.initialized
          /\ callers[c] = "waiting" => startPromise = "pending")
  /\ [][C19_Step]_vars

\* C19 witness: two callers called listen() while the first caller's startup
\* was in progress; one engine was constructed and the transport bound once, and
\* the two have resolved before the first caller's listen() resumes
C19_Witness ==
  /\ started
  /\ startLog = Starts(1, 1, 1, 1)
  /\ startPromise = "resolved"
  /\ Cardinality({c \in Callers : callers[c] = "starting"}) = 1
  /\ Cardinality({c \in Callers : callers[c] = "resolved"}) = MaxCallers - 1

(* ------------------- C20: serialized filter and filterContext ----------- *)
\* the engine method of slot r was invoked
EngineInvoked(r) ==
  \/ reqs[r].stage \in {"awaiting", "abandoned"}
  \/ reqs[r].outcome \in {"returned", "threw", "timeout"}
\* the request of slot r carried a serialized filter together with a filterContext
CarriesFilterContext(r) ==
  /\ ParamsOf(reqs[r].payload.params).filter.kind = "serialized"
  /\ ParamsOf(reqs[r].payload.params).filterContext # Undefined

\* C20 as stated: when a request parameter is an options object carrying a
\* serialized filter together with a filterContext, the engine method is invoked
\* with an options object whose filter is a function that, called with a metadata
\* record, evaluates the original filter as filter(metadata, filterContext).  The
\* dispatcher hands over the bare function of the source, so a call with a
\* metadata record alone leaves the context undefined.
C20_AsStated ==
  \A r \in Slots :
    (EngineInvoked(r) /\ CarriesFilterContext(r)) =>
      /\ engineArgs[r].filter.kind = "function"
      /\ \A m \in Owners :
           CallFilter(engineArgs[r].filter, m)
             = Apply(ParamsOf(reqs[r].payload.params).filter.fn, m,
                     ParamsOf(reqs[r].payload.params).filterContext)

(* ===================== the client SDK (VectoriaDB) ===================== *)
\* how many search()/query() calls are followed
MaxSdkCalls == 1

\* options.filter as a raw source string, and as a value that is no filter (5)
RawString(source) == [kind |-> "string", fn |-> source]
NotAFilter == [kind |-> "other", fn |-> "5"]
\* the options object of search() and query(): { filter, filterContext, topK },
\* topK 0 for a missing field
SearchOptions(filter, filterContext, topK) ==
  [filter |-> filter, filterContext |-> filterContext, topK |-> topK]
NoSearchOptions == SearchOptions(NoFilter, Undefined, 0)
\* the options that callers pass
UserFilters == {NoFilter, Fn(OwnerIsTeam), Fn(OwnerIsCtxOwner), RawString(OwnerIsTeam),
                Serialized(OwnerIsCtxOwner), NotAFilter}
UserOptions == {SearchOptions(f, c, k) : f \in UserFilters, c \in {Undefined, "team"},
                                         k \in {0, 5}}
Queries == {"hello"}
\* the collection names that callers pass: "" is rejected
QueryCollections == {"", "team"}

\* fn.toString()
FnToString(f) == f.fn
\* VectoriaDB._serializeFunction(fn)
SerializeFunctionNot(fn) == fn
SerializeFunction(fn) ==
  IF fn.kind = "function" THEN Serialized(FnToString(fn))
  ELSE IF fn.kind = "string" /\ fn.fn # "" THEN Serialized(fn.fn)
  ELSE NoFilter

\* JSON.stringify of a string without special characters
JsonStringify(str) == "\"" \o str \o "\""
\* the template literals of query()
CombinedFnStr(origFnStr, ownerLiteral) ==
  "(function(m){ try { const __orig = " \o origFnStr
    \o "; return !!(__orig(m) && m && m.owner === " \o ownerLiteral
    \o "); } catch(e) { return false } })"
OwnerFnStr(ownerLiteral) ==
  "(function(m){ return m && m.owner === " \o ownerLiteral \o "; })"

\* one element of params: a plain value or an options object
Param(kind, value, options) == [kind |-> kind, value |-> value, options |-> options]
\* { method, params } given to sendRequest by call number by, with the outcome of
\* the promise that sendRequest returned
Forwarded(by, method, params, outcome) ==
  [by |-> by, method |-> method, params |-> params, outcome |-> outcome]
\* a promise: "pending", "resolved" with a value, "rejected" with a message
Promise(state, value, message) == [state |-> state, value |-> value, message |-> message]
PendingPromise == Promise("pending", Null, "")
\* what the transport resolves a request with, and what it rejects it with
TransportResults == {Null, Arr(<<1>>), Arr(<<1, 2>>)}
TransportErrors == {"Request timeout"}
\* a call: the method called, its arguments, the caller's options object as it is
\* after the call, the index of the request forwarded (0: none), the promise returned
SdkCall(op, collection, query, options, after, sent, returned) ==
  [op |-> op, collection |-> collection, query |-> query, options |-> options,
   after |-> after, sent |-> sent, promise |-> returned]

\* this._forward(method, ...params): this._socket.sendRequest({ method, params })
Forward(by, method, params) == Append(forwarded, Forwarded(by, method, params, PendingPromise))

\* { ...options }: the caller's object, and a new object with the same fields
Spread(options) == [caller |-> options, copy |-> options]
\* the body of search(queryOrVector, options): opts.filter is assigned on the copy
SearchBody(options) ==
  LET o == Spread(options)
  IN IF o.copy.filter.kind = "function"
       THEN [o EXCEPT !.copy.filter = SerializeFunction(@)]
       ELSE o
SearchParams(queryOrVector, opts) ==
  <<Param("value", queryOrVector, NoSearchOptions), Param("options", "", opts)>>

\* search(queryOrVector, options)
Search(queryOrVector, options) ==
  /\ Len(sdkCalls) < MaxSdkCalls
  /\ forwarded' = Forward(Len(sdkCalls) + 1, "search",
                          SearchParams(queryOrVector, SearchBody(options).copy))
  /\ sdkCalls' = Append(sdkCalls, SdkCall("search", "", queryOrVector, options,
                                          SearchBody(options).caller,
                                          Len(forwarded'), PendingPromise))
  /\ UNCHANGED <<clientVars, serverVars>>

\* the filter that query() puts into its copy of the options; "TypeError" when
\* the filter given is neither a function nor a source
QueryFilter(collection, originalFilter) ==
  IF originalFilter.kind = "none" \/ originalFilter.fn = ""
    THEN SerializeFunction(RawString(OwnerFnStr(JsonStringify(collection))))
  ELSE IF originalFilter.kind \in {"function", "string", "serialized"}
    THEN SerializeFunction(RawString(CombinedFnStr(originalFilter.fn,
                                                   JsonStringify(collection))))
  ELSE [kind |-> "TypeError", fn |-> ""]

\* query(collection, queryVectorOrText, opts)
Query(collection, queryVectorOrText, opts) ==
  /\ Len(sdkCalls) < MaxSdkCalls
  /\ LET filter == QueryFilter(collection, opts.filter)
         o == Spread(opts)
         options == [o.copy EXCEPT !.filter = filter]
     IN IF collection = ""
          THEN /\ sdkCalls' = Append(sdkCalls,
                                SdkCall("query", collection, queryVectorOrText, opts, o.caller, 0,
                                        Promise("rejected", Null, "collection required")))
               /\ UNCHANGED forwarded
        ELSE IF filter.kind = "TypeError"
          THEN /\ sdkCalls' = Append(sdkCalls,
                                SdkCall("query", collection, queryVectorOrText, opts, o.caller, 0,
                                        Promise("rejected", Null,
                                          "filter must be a function or serialized function")))
               /\ UNCHANGED forwarded
        ELSE /\ forwarded' = Forward(Len(sdkCalls) + 1, "search",
                                     SearchParams(queryVectorOrText, SearchBody(options).copy))
             /\ sdkCalls' = Append(sdkCalls,
                              SdkCall("query", collection, queryVectorOrText, opts, o.caller,
                                      Len(forwarded'), PendingPromise))
  /\ UNCHANGED <<clientVars, serverVars>>

\* the promise of sendRequest settles
TransportSettles(j, outcome) ==
  /\ j \in 1..Len(forwarded)
  /\ forwarded[j].outcome.state = "pending"
  /\ forwarded' = [forwarded EXCEPT ![j].outcome = outcome]
  /\ UNCHANGED <<sdkCalls, clientVars, serverVars>>

\* return this._forward(...) in an async method: the promise of the call follows
\* the promise of sendRequest
CallSettles(k) ==
  /\ k \in 1..Len(sdkCalls)
  /\ sdkCalls[k].promise.state = "pending"
  /\ sdkCalls[k].sent # 0
  /\ forwarded[sdkCalls[k].sent].outcome.state # "pending"
  /\ sdkCalls' = [sdkCalls EXCEPT ![k].promise = forwarded[sdkCalls[k].sent].outcome]
  /\ UNCHANGED <<forwarded, clientVars, serverVars>>

\* search() and query() calls with every option, over a transport that resolves or
\* rejects
InitSdk == ClientUnused /\ ServerUnused

NextSdk ==
  \/ \E q \in Queries, o \in UserOptions : Search(q, o)
  \/ \E c \in QueryCollections, q \in Queries, o \in UserOptions : Query(c, q, o)
  \/ \E j \in 1..MaxSdkCalls, v \in TransportResults :
       TransportSettles(j, Promise("resolved", v, ""))
  \/ \E j \in 1..MaxSdkCalls, e \in TransportErrors :
       TransportSettles(j, Promise("rejected", Null, e))
  \/ \E k \in 1..MaxSdkCalls : CallSettles(k)

SpecSdk == InitSdk /\ [][NextSdk]_vars

(* ------------------------- C21: client.search -------------------------- *)
\* the requests that call k forwarded
SentBy(k) == {j \in 1..Len(forwarded) : forwarded[j].by = k}
\* the filter of the caller's options as it goes over the wire
OnWire(filter) ==
  IF filter.kind = "function" THEN [kind |-> "serialized", fn |-> filter.fn] ELSE filter

\* C21: client.search(q, options) sends exactly one request with method 'search'
\* and two params; a function-valued options.filter is replaced by the tagged
\* payload { __isFnString: true, fn: source }, every other option field including
\* filterContext is forwarded unchanged, the caller's options object is not
\* modified, and the call resolves to the transport's result unchanged.
C21_SearchForwards ==
  \A k \in 1..Len(sdkCalls) :
    sdkCalls[k].op = "search" =>
      /\ Cardinality(SentBy(k)) = 1
      /\ sdkCalls[k].sent \in SentBy(k)
      /\ LET c == sdkCalls[k]
             f == forwarded[c.sent]
         IN /\ f.method = "search"
            /\ Len(f.params) = 2
            /\ f.params[1] = Param("value", c.query, NoSearchOptions)
            /\ f.params[2].kind = "options"
            /\ f.params[2].options.filter = OnWire(c.options.filter)
            /\ f.params[2].options.filterContext = c.options.filterContext
            /\ f.params[2].options.topK = c.options.topK
            /\ c.after = c.options
            /\ c.promise.state = "resolved" =>
                 (f.outcome.state = "resolved" /\ c.promise.value = f.outcome.value)
            /\ f.outcome.state = "pending" => c.promise.state = "pending"

\* a search with a function filter and a filterContext has resolved to a result
C21_Witness ==
  \E k \in 1..Len(sdkCalls) :
    /\ sdkCalls[k].op = "search"
    /\ sdkCalls[k].options.filter = Fn(OwnerIsCtxOwner)
    /\ sdkCalls[k].options.filterContext = "team"
    /\ sdkCalls[k].promise = Promise("resolved", Arr(<<1>>), "")

(* -------------------------- C22: client.query -------------------------- *)
\* true and false as the strings that Apply gives
Bool(b) == IF b THEN "true" ELSE "false"
\* the sources that callers write, and the names a combined source can hold
UserSources == {OwnerIsTeam, OwnerIsCtxOwner}
\* new Function('return (' + source + ')')()(m, ctx) for the sources that occur:
\* a caller's source, the owner test, and the combined source, whose function(m)
\* calls __orig(m) inside try/catch and has no second parameter
Eval(source, m, ctx) ==
  IF source \in UserSources THEN Apply(source, m, ctx)
  ELSE IF \E c \in Owners : source = OwnerFnStr(JsonStringify(c))
    THEN Bool(source = OwnerFnStr(JsonStringify(m)))
  ELSE IF \E o \in UserSources, c \in Owners : source = CombinedFnStr(o, JsonStringify(c))
    THEN Bool(\E o \in UserSources :
                /\ source = CombinedFnStr(o, JsonStringify(m))
                /\ Apply(o, m, Undefined) = "true")
  ELSE "SyntaxError"

\* a query() call with a filter and a filterContext that was forwarded
QueryWithContext(k) ==
  /\ sdkCalls[k].op = "query"
  /\ sdkCalls[k].sent # 0
  /\ sdkCalls[k].options.filter.kind \in {"function", "string", "serialized"}
  /\ sdkCalls[k].options.filterContext # Undefined

\* C22 as stated: client.query(collection, q, {filter, filterContext}) sends a
\* 'search' request whose options carry one serialized combined filter that
\* inlines the user's filter, accepts a second (context) argument which it passes
\* on to the user's filter, and additionally requires metadata.owner to equal the
\* collection; filterContext is forwarded unchanged.  The combined function is
\* function(m) and calls __orig(m): the user's filter never sees the context.
C22_AsStated ==
  \A k \in 1..Len(sdkCalls) :
    QueryWithContext(k) =>
      LET c == sdkCalls[k]
          sent == forwarded[c.sent].params[2].options
      IN /\ forwarded[c.sent].method = "search"
         /\ sent.filter.kind = "serialized"
         /\ sent.filterContext = c.options.filterContext
         /\ \A m \in Owners :
              Eval(sent.filter.fn, m, c.options.filterContext)
                = Bool(/\ Apply(c.options.filter.fn, m, c.options.filterContext) = "true"
                       /\ m = c.collection)

(* ------------------- C23: malformed callable source -------------------- *)
\* slot r holds a request with a method whose params carry malformed source
HoldsMalformed(r) ==
  /\ reqs[r].stage # "free"
  /\ reqs[r].payload.kind = "object"
  /\ reqs[r].payload.method # ""
  /\ reqs[r].payload.params \in {"badFn", "badFilter"}

\* C23: a request whose params contain a tagged callable payload (top-level or
\* nested as options.filter) with malformed source ends with one error response
\* carrying the request's id, the engine method is not invoked, and the server
\* keeps handling later requests on the same socket.
C23_MalformedSourceAnswered ==
  \A r \in Slots :
    HoldsMalformed(r) =>
      /\ reqs[r].stage = "done"
      /\ Len(wire[r]) = 1
      /\ wire[r][1].type = "response"
      /\ wire[r][1].id = reqs[r].payload.id
      /\ wire[r][1].error.present
      /\ wire[r][1].result = Null
      /\ ~EngineInvoked(r)
      /\ r \in sockets
      /\ ENABLED OnRequest(r, Payload("object", r, "search", "plain"), MaxFewHistory)

\* a request with a malformed options.filter was answered
C23_Witness ==
  \E r \in Slots :
    /\ HoldsMalformed(r)
    /\ reqs[r].payload.params = "badFilter"
    /\ reqs[r].payload.method = "search"
    /\ reqs[r].outcome = "crashed"
    /\ Len(wire[r]) = 1

(* ----------------------- C24: the server deadline ---------------------- *)
\* the deadline of slot r fired while its engine call was pending
TimedOut(r) == reqs[r].outcome = "timeout"

\* once the deadline of a request has fired, nothing more is emitted for it
C24_Step ==
  \A r \in Slots : (TimedOut(r) /\ reqs'[r].payload = reqs[r].payload
                                /\ reqs'[r].outcome = "timeout")
                     => wire'[r] = wire[r]

\* C24: if the engine call of a dispatch does not complete within the server-side
\* deadline, the request ends with an error response whose message is
\* 'ServerTimeout'; the engine call is not cancelled, and when it later completes
\* or fails no further response or chunk event is emitted for that request.
C24_ServerTimeout ==
  /\ [](\A r \in Slots :
          TimedOut(r) =>
            /\ wire[r] = <<ResponseEv(reqs[r].payload.id, Null, Err("ServerTimeout"))>>
            /\ reqs[r].stage \in {"abandoned", "done"}
            /\ reqs[r].stage = "abandoned" =>
                 /\ \A v \in EngineResults : ENABLED EngineReturns(r, v)
                 /\ \A m \in EngineErrors : ENABLED EngineThrows(r, m))
  /\ [][C24_Step]_vars

\* the engine call of a mutating request completed after its deadline had fired
C24_Witness ==
  \E r \in Slots :
    /\ TimedOut(r)
    /\ reqs[r].stage = "done"
    /\ reqs[r].payload.method = "add"
    /\ Len(wire[r]) = 1

(* ----------------------- C25: one inactivity timer --------------------- *)
\* a step in which _recordMutation ran
Recorded == Len(burstLog') = Len(burstLog) + 1
\* a step in which the inactivity handler ran
HandlerRan == Cardinality(inactivityTimer') < Cardinality(inactivityTimer)

C25_Step ==
  /\ Recorded => inactivityTimer' = {now + mutationInactivityMs}
  /\ HandlerRan => /\ lastMutationAt > 0
                   /\ now - lastMutationAt >= mutationInactivityMs
                   /\ inactivityTimer' = {}

\* C25: at most one inactivity timer is armed at any time: every successful
\* mutating dispatch cancels the previously armed timer and arms a new one of
\* mutationInactivityMs, so the inactivity handler runs only after
\* mutationInactivityMs has passed with no recorded mutation, and once per quiet
\* period, not once per mutation.
C25_SingleDebouncedTimer ==
  /\ [](/\ Cardinality(inactivityTimer) <= 1
        /\ \A d \in inactivityTimer : d = lastMutationAt + mutationInactivityMs)
  /\ [][C25_Step]_vars

\* the handler has run once after two mutations recorded at different times, and
\* no timer is left
C25_Witness ==
  /\ lastFire.logged >= 2
  /\ lastMutationAt > StartTime
  /\ inactivityTimer = {}
  /\ now - lastMutationAt >= mutationInactivityMs

(* -------------------- C26: which dispatches are tracked ----------------- *)
\* in this step the engine call of a method of the mutating set resolved before
\* its deadline
MutationSucceeded ==
  \E r \in Slots : /\ reqs[r].stage = "awaiting"
                   /\ reqs'[r].outcome = "returned"
                   /\ reqs[r].payload.method \in MutationMethods

C26_Step ==
  IF autoSaveOnMutationBurst /\ MutationSucceeded
    THEN /\ mutationTimestamps'
              = Purge(Append(mutationTimestamps, now), now - mutationBurstWindowMs)
         /\ inactivityTimer' = {now + mutationInactivityMs}
         /\ lastMutationAt' = now
    ELSE UNCHANGED <<mutationTimestamps, inactivityTimer, lastBurstAt, lastMutationAt>>

\* C26: with mutation tracking enabled, a mutation record is appended and the
\* inactivity timer re-armed only when a dispatched method is in the mutating set
\* and its engine call completed successfully within the deadline; a dispatch of
\* a non-mutating method, an unknown method, a mutating method whose engine call
\* throws, or one that exceeds the server deadline leaves the mutation history
\* and the timer unchanged.
C26_TracksSuccessfulMutations == [][C26_Step]_vars

\* a mutating call was recorded, and then a second one ended without a record:
\* its engine call threw or outlived the deadline, or the engine lacks the method
C26_Witness ==
  \E r \in Slots :
    /\ autoSaveOnMutationBurst
    /\ Len(mutationTimestamps) = 1
    /\ reqs[r].stage = "done"
    /\ reqs[r].payload.method \in MutationMethods
    /\ reqs[r].outcome \in {"threw", "timeout", "notFound"}

(* ------------------ C27: history after the handler ran ------------------ *)
\* a step in which a run of _onInactivityTimeout ended: at once when it did not
\* reach the engine, else when the engine's saveToStorage settled
HandlerFinished ==
  \/ HandlerRan /\ engineSaves'.auto = engineSaves.auto
  \/ engineSaves'.auto < engineSaves.auto

\* C27: each time the inactivity handler runs, in either mode and whether a flush
\* was made, suppressed by a guard, failed or not attempted, the mutation history
\* is empty and the last-burst marker reset when the handler finishes.
C27_HistoryClearedByHandler ==
  [][HandlerFinished => (mutationTimestamps' = << >> /\ lastBurstAt' = 0)]_vars

\* in burst mode a flush failed after a further mutation had been recorded while
\* it ran, and the history is empty
C27_Witness ==
  /\ ~autoSaveOnInactivity
  /\ lastTrigger.call = "failed"
  /\ lastMutationAt > lastTrigger.at
  /\ mutationTimestamps = << >>
  /\ lastBurstAt = 0

(* --------------------- C28: a failing autosave call --------------------- *)
\* a step in which the engine's saveToStorage, called by _saveToStorage, threw
FlushFailed == lastTrigger.call = "running" /\ lastTrigger'.call = "failed"

C28_Step ==
  FlushFailed => /\ reqs' = reqs
                 /\ wire' = wire
                 /\ lastSaveAt' = lastSaveAt
                 /\ savingInProgress' = FALSE

\* C28: a failing autosave persistence call is contained in the scheduler: it
\* changes the response of no dispatch, does not update the last-save time, and
\* releases the re-entrancy flag, so a later flush trigger is not blocked by an
\* earlier failed flush.
C28_FailedFlushContained ==
  /\ [][C28_Step]_vars
  /\ []((lastTrigger.call = "failed" /\ engineSaves.auto = 0) => ~savingInProgress)
  /\ []((lastFire.triggered = 1 /\ lastFire.prev = "failed") => lastFire.started)

\* after a flush that failed, the next run of the handler reached the engine
C28_Witness ==
  /\ lastFire.triggered = 1
  /\ lastFire.prev = "failed"
  /\ lastFire.started
  /\ lastFire.soon

(* ---------------- C29: shutdown flush and autosave flush ---------------- *)
\* the calls of the engine's saveToStorage that have not settled
SavesInFlight == engineSaves.auto + engineSaves.shutdown

\* C29 as stated: the shutdown flush never overlaps an autosave flush: across any
\* interleaving of close() with an inactivity-timer flush that is still in
\* progress, at most one engine saveToStorage call is in flight at any time.
\* close() calls the engine's saveToStorage itself, without consulting
\* _savingInProgress.
C29_AsStated == SavesInFlight <= 1

(* ----------------------- C30: quiescence after close -------------------- *)
\* close() on a started server has completed
CloseCompleted == closeCall.stage = "resolved" /\ closeCall.saves > 0 /\ ~started

\* C30 as stated: once server close() has completed, the autosave scheduler is
\* quiescent: no inactivity timer is armed and no autosave persistence call
\* starts afterwards, even when a mutating dispatch or an inactivity handler was
\* still in progress when close() was called.  A mutating engine call that was
\* pending when close() ran records its mutation when it resolves and arms the
\* timer again.
C30_AsStated == CloseCompleted => inactivityTimer = {}

(* ---------------- C31: no mutation left unpersisted forever ------------- *)
\* no dispatch is under way
NoDispatchUnderWay == \A r \in Slots : reqs[r].stage \in {"free", "done"}

\* C31 as stated: in inactivity mode no recorded mutation is left unpersisted
\* forever: after any successful mutating dispatch, if no further mutating
\* dispatch occurs and the server keeps running, a persistence call that starts
\* after that dispatch eventually happens, also when the mutation was recorded
\* while a flush was in progress or when the flush at the next timer firing was
\* suppressed by a guard.  A persistence call starts only from the inactivity
\* timer, so a mutation recorded since the last call needs an armed timer; the
\* handler leaves none behind when its flush is suppressed or finds the history
\* emptied by the flush before it.
C31_AsStated ==
  (autoSaveOnInactivity /\ unsaved /\ NoDispatchUnderWay) => inactivityTimer # {}

(* --------------- C32: a terminal response with an error ---------------- *)
\* C32 as stated: a terminal response that carries a non-null error always makes
\* the request fail: also when chunks have already been accumulated for that id,
\* the promise rejects rather than resolving with the chunks received so far.
\* The 'response' handler looks at pending.chunksMap before it looks at error.
C32_AsStated ==
  (lastEvent.kind = "response" /\ lastEvent.found /\ lastEvent.error.present)
    => promise[lastEvent.id].state = "rejected"

(* ------------------ C33: pending table and armed timers ----------------- *)
\* C33: in every reachable client state the pending table and the armed timers
\* correspond one to one: each id in the pending table has exactly one armed
\* timeout timer and an unsettled promise, and no armed timer exists for an id
\* that is absent from the table.
C33_PendingTimersOneToOne ==
  /\ \A i \in DOMAIN pending : /\ TimersOf(timers, i) = {pending[i].timer}
                               /\ promise[i].state = "pending"
  /\ \A t \in timers : t.id \in DOMAIN pending
  /\ Cardinality(timers) = Cardinality(DOMAIN pending)

\* one request had its timer reset by a chunk and is still pending, another was
\* settled by its terminal response, and the only armed timer is the reset one
C33_Witness ==
  \E i \in DOMAIN pending : \E j \in Ids :
    /\ pending[i].receivedChunks > 0
    /\ pending[i].timer.gen > 0
    /\ promise[j].state = "resolved"
    /\ j \notin DOMAIN pending
    /\ timers = {pending[i].timer}
====
